---- MODULE Spec2Model ----
(***************************************************************************)
(* Model of the telemetry store of network-monitor (package storage) and   *)
(* of the operations the collectors and the API handlers perform on it.    *)
(*                                                                         *)
(* Go values are modelled as follows.                                      *)
(*   - time.Time      : an integer number of seconds on one clock (now).   *)
(*   - time.Duration  : an integer (nanoseconds); division truncates       *)
(*                      towards zero as Go's integer division does.        *)
(*   - float64        : an exact rational, kept as a record of integers.   *)
(*   - uint64 a-b     : the pair (wrap, diff) standing for                 *)
(*                      wrap * 2^64 + diff, so that a wrapped difference   *)
(*                      is kept apart from a negative one.                 *)
(*   - map[K]*V       : a function from the present keys to the record the *)
(*                      pointer refers to.  The store never replaces a     *)
(*                      pointer once a key is created, so the key names    *)
(*                      the heap object; a pointer is modelled by its key. *)
(***************************************************************************)
EXTENDS Integers, Sequences, FiniteSets, TLC

(***************************************************************************)
(* Program constants.                                                      *)
(***************************************************************************)
MaxHistoryPoints == 100

FiveMinutes == 5 * 60

(***************************************************************************)
(* Bounds of the model.                                                    *)
(***************************************************************************)
\* number of store updates explored after the initial state
MaxCalls == 2
\* number of samples already recorded in a pre-filled initial state
PrefillLen == 100
\* the clock is not advanced beyond this instant
MaxTime == 301
\* the clock is not advanced beyond this instant while histories are filled
HistoryHorizon == 1
\* number of API requests that read the store at the same time
MaxReaders == 2
\* number of network interfaces net.Interfaces() reports
MaxIfaces == 3
\* number of probes the ping collector makes from its start on
MaxProbes == 8
\* number of times the traffic collector queries the OS counters
MaxQueries == 2
\* number of ticks the device collector receives
MaxDiscoveries == 2
\* number of samples recorded side by side by StorePingData and UpdatePing
MaxSamples == 3

(***************************************************************************)
(* Inputs.                                                                 *)
(***************************************************************************)
\* instants at which the clock is read: elapsed times of 0 s, 1 s, 299 s,
\* 300 s and 301 s all occur between two of them
Instants == {0, 1, 299, 300, 301}

Hosts == {"8.8.8.8", "127.0.0.1"}

\* durations in nanoseconds, a negative one included (accepted as-is)
Latencies == {-7, 0, 1010}

\* the label a probe result carries: what pingHost reports for the outcome
MethodsOf(success) == IF success THEN {"ICMP"} ELSE {"FAILED"}

Names == {"eth0", "wlan0"}

\* readings <<bytesRx, bytesTx, packetsRx, packetsTx>> of the OS counters;
\* the third one is lower than the others (a counter reset)
IOSamples == {<<1000, 500, 10, 5>>, <<3000, 1500, 30, 15>>, <<200, 100, 2, 1>>}

IPs == {"192.168.1.10", "192.168.1.20"}

MACs == {"", "aa:bb:cc:dd:ee:01", "aa:bb:cc:dd:ee:02"}

Hostnames == {"", "printer.lan", "nas.lan"}

\* targets := []string{"8.8.8.8", "1.1.1.1", "127.0.0.1"}, no gateway found
Targets == <<"8.8.8.8", "1.1.1.1", "127.0.0.1">>

\* what getGatewayIP() returns: nothing, or the .1 address of the network of
\* the local address (192.168.1.x, or 1.1.1.x on a network numbered so)
Gateways == {"", "192.168.1.1", "1.1.1.1"}

\* tcpPorts := []string{"80", "443", "53", "22"}
tcpPorts == <<"80", "443", "53", "22">>

\* what pingICMP returns: (0, err) or (rtt, nil)
IcmpOutcomes == {[ok |-> FALSE, rtt |-> 0], [ok |-> TRUE, rtt |-> 1010]}

\* the time a successful connect to each port takes
DialTime == [port \in {"80", "443", "53", "22"} |->
                CASE port = "80"  -> 80000
                  [] port = "443" -> 44300
                  [] port = "53"  -> 5300
                  [] port = "22"  -> 2200]

\* what tcpPing returns for each port: (0, err) or (dial time, nil)
TcpOutcomes ==
    {[port \in DOMAIN DialTime |->
         IF port \in open THEN [ok |-> TRUE, rtt |-> DialTime[port]]
                           ELSE [ok |-> FALSE, rtt |-> 0]] : open \in SUBSET DOMAIN DialTime}

\* what the collectors pass to the store while the locking is followed step
\* by step: two interfaces, two devices, two hosts
TrafficReports == {<<"eth0", 1000, 500, 10, 5>>, <<"wlan0", 3000, 1500, 30, 15>>}

DeviceReports == {<<"192.168.1.10", "aa:bb:cc:dd:ee:01", "">>,
                  <<"192.168.1.20", "", "nas.lan">>}

PingReports == {<<"8.8.8.8", 1010, TRUE, "ICMP">>, <<"127.0.0.1", 0, FALSE, "FAILED">>}

\* the interfaces net.Interfaces() may report, each with the addresses
\* iface.Addrs() returns in order: Loopback is the interface's FlagLoopback,
\* V4 tells whether ipnet.IP.To4() != nil, Net is ipnet.String()
LocalIfaces ==
    {[Name |-> "lo", Loopback |-> TRUE,
      Addrs |-> <<[V4 |-> TRUE, Net |-> "127.0.0.1/8"], [V4 |-> FALSE, Net |-> "::1/128"]>>],
     [Name |-> "eth0", Loopback |-> FALSE,
      Addrs |-> <<[V4 |-> FALSE, Net |-> "fe80::1/64"],
                  [V4 |-> TRUE, Net |-> "192.168.1.10/24"]>>],
     [Name |-> "wlan0", Loopback |-> FALSE,
      Addrs |-> <<[V4 |-> TRUE, Net |-> "10.0.0.5/16"]>>],
     [Name |-> "docker0", Loopback |-> FALSE,
      Addrs |-> <<[V4 |-> TRUE, Net |-> "172.17.0.1/16"]>>],
     [Name |-> "wg0", Loopback |-> FALSE,
      Addrs |-> <<[V4 |-> FALSE, Net |-> "fd00::2/64"]>>],
     [Name |-> "tun0", Loopback |-> FALSE, Addrs |-> <<>>]}

\* the lists net.Interfaces() may return: up to MaxIfaces different interfaces
\* in any order
IfaceLists ==
    UNION {{l \in [1..n -> LocalIfaces] : \A i, j \in 1..n : i # j => l[i] # l[j]} :
           n \in 0..MaxIfaces}

\* subnets given to pingSweep: the address of the host as four bytes and the
\* prefix length
SweepHosts == {<<192, 168, 1, 10>>, <<192, 168, 1, 200>>, <<10, 0, 0, 5>>, <<172, 17, 255, 1>>}

PrefixLengths == {23, 24, 25, 30}

\* the addresses that may answer the ping of the sweep
SweepCandidates == {<<192, 168, 1, 1>>, <<192, 168, 1, 129>>, <<10, 0, 0, 6>>}

\* what the network answers to the probes of the passes that are followed
\* from Start on: the echo is answered; it is not and the first port that
\* accepts is 443; nothing answers
PassOutcomes ==
    {[icmp |-> [ok |-> TRUE, rtt |-> 1010], tcp |-> t] :
        t \in {x \in TcpOutcomes : \A port \in DOMAIN x : ~x[port].ok}}
    \cup {[icmp |-> [ok |-> FALSE, rtt |-> 0], tcp |-> t] :
              t \in {x \in TcpOutcomes : {port \in DOMAIN x : x[port].ok} \in {{}, {"443", "53"}}}}

\* the names net.IOCounters(true) reports, in its order: of Linux (lo) and
\* of Windows (Loopback Pseudo-Interface 1), with and without other
\* interfaces
ReportedNames ==
    {<<"lo", "eth0", "wlan0">>, <<"eth0", "lo">>,
     <<"Loopback Pseudo-Interface 1", "wlan0">>, <<"lo">>, <<>>}

\* the []IOCountersStat net.IOCounters(true) returns without error
CounterReports ==
    {[i \in 1..Len(names) |->
        [Name |-> names[i], BytesRecv |-> sample[1], BytesSent |-> sample[2],
         PacketsRecv |-> sample[3], PacketsSent |-> sample[4]]] :
     names \in ReportedNames, sample \in IOSamples}

\* the interval main gives the traffic collector, in seconds
TrafficInterval == 2

\* the interval main gives the device collector, in seconds
DeviceInterval == 10

\* what the lines of the output of "arp -a" give, line by line: IP is what
\* extractIP returns for the first field and MAC what extractMAC returns for
\* the line ("" when the line has no address of six groups)
ArpOutputs ==
    {<<>>,
     <<[IP |-> "192.168.1.1", MAC |-> "aa:bb:cc:dd:ee:01"]>>,
     <<[IP |-> "192.168.1.1", MAC |-> "aa:bb:cc:dd:ee:01"],
       [IP |-> "192.168.1.20", MAC |-> ""],
       [IP |-> "192.168.1.30", MAC |-> "aa:bb:cc:dd:ee:02"]>>}

\* the interfaces net.Interfaces() reports in a discovery tick: none with an
\* IPv4 address, or eth0 as the first one with an IPv4 address, on a network
\* of sixteen addresses
DiscoveryIfaces ==
    {<<[Name |-> "wg0", Loopback |-> FALSE,
        Addrs |-> <<[V4 |-> FALSE, Net |-> "fd00::2/64"]>>],
       [Name |-> "tun0", Loopback |-> FALSE, Addrs |-> <<>>]>>,
     <<[Name |-> "wg0", Loopback |-> FALSE,
        Addrs |-> <<[V4 |-> FALSE, Net |-> "fd00::2/64"]>>],
       [Name |-> "eth0", Loopback |-> FALSE,
        Addrs |-> <<[V4 |-> FALSE, Net |-> "fe80::1/64"],
                    [V4 |-> TRUE, Net |-> "192.168.1.10/28"]>>]>>}

\* the addresses that may answer the ping of the sweep of a discovery tick
DiscoveryCandidates == {<<192, 168, 1, 1>>, <<192, 168, 1, 10>>}

\* the addresses net.LookupAddr knows a name for, and the name it gives
\* first for them
ResolvableIPs == {"192.168.1.1"}

ResolvedName == "router.lan."

\* the goroutines main starts, which write the store
Writers == {"traffic", "device", "ping"}

\* the goroutines serving API requests, which read the store
ReaderNames == <<"request1", "request2", "request3">>

Readers == {ReaderNames[i] : i \in 1..MaxReaders}

VARIABLES
    now,             \* the value time.Now() returns
    Interfaces,      \* Store.Interfaces
    Devices,         \* Store.Devices
    PingResults,     \* Store.PingResults
    LastUpdated,     \* Store.LastUpdated
    snapInterfaces,  \* the map last returned by GetInterfaces (key -> pointer)
    snapDevices,     \* the map last returned by GetDevices (key -> copied struct)
    snapPings,       \* the map last returned by GetPings (key -> pointer)
    probeLog,        \* per host, the samples passed to StorePingData so far
    lastOp,          \* the operation performed last, with its arguments
    nCalls,          \* number of store updates performed after Init
    mu,              \* Store.mu: the writer holding it and the readers holding it
    pc,              \* per goroutine, its position in the store method it runs
    probe,           \* the ping collector: next target, last PingResult
    traffic,         \* the traffic collector: its position, what its tick did
    discovery,       \* the device collector: its position, what its tick did
    twinPings,       \* PingResults of a second store, which UpdatePing writes
    live             \* the websocket handler: its position, its liveData

vars == <<now, Interfaces, Devices, PingResults, LastUpdated,
          snapInterfaces, snapDevices, snapPings, probeLog, lastOp, nCalls,
          mu, pc, probe, traffic, discovery, twinPings, live>>

\* the state of the goroutines that call the store; a store method run as one
\* step takes and releases the lock within the step and leaves it as it was
callerVars == <<mu, pc, probe, traffic, discovery, twinPings, live>>

(***************************************************************************)
(* Helpers.                                                                *)
(***************************************************************************)
\* the empty Go map
EmptyMap == [k \in {} |-> 0]

\* the websocket handler between two calls of getLiveData
NoLiveData == [phase |-> "idle"]

\* the assignment that forgets the other keys
MapPutAlone(m, k, v) == [x \in {k} |-> v]

\* m[k] = v on a Go map
MapPut(m, k, v) == [x \in (DOMAIN m) \cup {k} |-> IF x = k THEN v ELSE m[x]]

\* Go's integer division for a positive divisor: truncates towards zero
GoDiv(a, b) == IF a >= 0 THEN a \div b ELSE -((-a) \div b)

\* equality of two rationals [num, den]
RatEq(a, b) == a.num * b.den = b.num * a.den

(***************************************************************************)
(* Store.StorePingData                                                     *)
(***************************************************************************)
\* ping.History = append(ping.History, point), then History[1:] when the
\* length exceeds MaxHistoryPoints
AppendPingPointKeepOldest(history, point) ==
    LET appended == Append(history, point)
    IN  IF Len(appended) > MaxHistoryPoints
        THEN SubSeq(appended, 1, MaxHistoryPoints)
        ELSE appended

AppendPingPoint(history, point) ==
    LET appended == Append(history, point)
    IN  IF Len(appended) > MaxHistoryPoints THEN Tail(appended) ELSE appended

\* if !success { ping.FailedPings++ }
FailedAfterAlways(failed, success) == failed + 1

FailedAfter(failed, success) == IF ~success THEN failed + 1 ELSE failed

\* float64(ping.FailedPings) / float64(ping.TotalPings) * 100
PacketLossStale(failed, total) == [num |-> failed * 100, den |-> total - 1]

PacketLossOf(failed, total) == [num |-> failed * 100, den |-> total]

\* the loop over ping.History restricted to the points lo..hi: the sum of the
\* latencies and the number of the points whose Success is true.  The range
\* is summed by halves, which keeps the evaluation shallow; the sums are
\* those of the sequential loop because integer addition is associative.
RECURSIVE RescanHistory(_, _, _)
RescanHistory(history, lo, hi) ==
    IF lo > hi
    THEN [total |-> 0, count |-> 0]
    ELSE IF lo = hi
         THEN IF history[lo].Success
              THEN [total |-> history[lo].Latency, count |-> 1]
              ELSE [total |-> 0, count |-> 0]
         ELSE LET mid   == (lo + hi) \div 2
                  left  == RescanHistory(history, lo, mid)
                  right == RescanHistory(history, mid + 1, hi)
              IN  [total |-> left.total + right.total,
                   count |-> left.count + right.count]

\* the average taken over every point, failed ones included
AvgLatencyAllPoints(history, rtt) ==
    LET all == [i \in 1..Len(history) |-> [history[i] EXCEPT !.Success = TRUE]]
        r   == RescanHistory(all, 1, Len(all))
    IN  GoDiv(rtt + r.total, 1 + r.count)

\* the average taken without the oldest point
AvgLatencySkipOldest(history, rtt) ==
    LET r == RescanHistory(history, 2, Len(history))
    IN  GoDiv(rtt + r.total, 1 + r.count)

\* total := rtt; count := 1; the loop; ping.AvgLatency = total / time.Duration(count)
AvgLatencyOf(history, rtt) ==
    LET r == RescanHistory(history, 1, Len(history))
    IN  GoDiv(rtt + r.total, 1 + r.count)

\* the branch taken when s.PingResults[host] exists
PingUpdated(ping, rtt, success, t) ==
    LET total  == ping.TotalPings + 1
        failed == FailedAfter(ping.FailedPings, success)
    IN  [Host        |-> ping.Host,
         LastLatency |-> IF success THEN rtt ELSE ping.LastLatency,
         AvgLatency  |-> IF success /\ Len(ping.History) > 0
                         THEN AvgLatencyOf(ping.History, rtt)
                         ELSE ping.AvgLatency,
         PacketLoss  |-> PacketLossOf(failed, total),
         TotalPings  |-> total,
         FailedPings |-> failed,
         History     |-> AppendPingPoint(ping.History,
                            [Timestamp |-> t, Latency |-> rtt, Success |-> success]),
         LastUpdated |-> t]

\* the creation that leaves AvgLatency at its zero value, as UpdatePing does
PingCreatedUnseeded(host, rtt, success, t) ==
    [Host        |-> host,
     LastLatency |-> rtt,
     AvgLatency  |-> 0,
     PacketLoss  |-> IF success THEN [num |-> 0, den |-> 1] ELSE [num |-> 100, den |-> 1],
     TotalPings  |-> 1,
     FailedPings |-> IF success THEN 0 ELSE 1,
     History     |-> <<[Timestamp |-> t, Latency |-> rtt, Success |-> success]>>,
     LastUpdated |-> t]

\* the branch taken for a new ping target
\* the creation that keeps the first sample out of the history
PingCreatedWithoutPoint(host, rtt, success, t) ==
    [Host        |-> host,
     LastLatency |-> rtt,
     AvgLatency  |-> IF success THEN rtt ELSE 0,
     PacketLoss  |-> IF success THEN [num |-> 0, den |-> 1] ELSE [num |-> 100, den |-> 1],
     TotalPings  |-> 1,
     FailedPings |-> IF success THEN 0 ELSE 1,
     History     |-> <<>>,
     LastUpdated |-> t]

\* the creation that counts a failed first sample twice
PingCreatedCountingTwice(host, rtt, success, t) ==
    [Host        |-> host,
     LastLatency |-> rtt,
     AvgLatency  |-> IF success THEN rtt ELSE 0,
     PacketLoss  |-> IF success THEN [num |-> 0, den |-> 1] ELSE [num |-> 100, den |-> 1],
     TotalPings  |-> 1,
     FailedPings |-> IF success THEN 0 ELSE 2,
     History     |-> <<[Timestamp |-> t, Latency |-> rtt, Success |-> success]>>,
     LastUpdated |-> t]

PingCreated(host, rtt, success, t) ==
    [Host        |-> host,
     LastLatency |-> rtt,
     AvgLatency  |-> IF success THEN rtt ELSE 0,
     PacketLoss  |-> IF success THEN [num |-> 0, den |-> 1] ELSE [num |-> 100, den |-> 1],
     TotalPings  |-> 1,
     FailedPings |-> IF success THEN 0 ELSE 1,
     History     |-> <<[Timestamp |-> t, Latency |-> rtt, Success |-> success]>>,
     LastUpdated |-> t]

\* the map s.PingResults after StorePingData(host, rtt, success, _) at time t
PingResultsAfter(pings, host, rtt, success, t) ==
    IF host \in DOMAIN pings
    THEN [pings EXCEPT ![host] = PingUpdated(pings[host], rtt, success, t)]
    ELSE MapPut(pings, host, PingCreated(host, rtt, success, t))

\* the samples recorded for a host so far
LogOf(log, host) == IF host \in DOMAIN log THEN log[host] ELSE <<>>

\* the method from s.mu.Lock() to its return
StorePingDataBody(host, rtt, success, method) ==
    /\ PingResults' = PingResultsAfter(PingResults, host, rtt, success, now)
    /\ LastUpdated' = now
    /\ probeLog' = MapPut(probeLog, host,
                          Append(LogOf(probeLog, host), [rtt |-> rtt, success |-> success]))
    /\ lastOp' = [op |-> "StorePingData", key |-> host, rtt |-> rtt,
                  success |-> success, existed |-> host \in DOMAIN PingResults]
    /\ nCalls' = nCalls + 1
    /\ UNCHANGED <<now, Interfaces, Devices, snapInterfaces, snapDevices, snapPings>>

\* one of the calls the exploration is bounded to
StorePingData(host, rtt, success, method) ==
    /\ nCalls < MaxCalls
    /\ StorePingDataBody(host, rtt, success, method)

(***************************************************************************)
(* Store.UpdatePing, the older recording function, which no collector      *)
(* calls.  It is run on twinPings, the PingResults of a second store.      *)
(***************************************************************************)
\* the branch taken when s.PingResults[host] exists
UpdatePingExisting(ping, latency, success, t) ==
    LET total  == ping.TotalPings + 1
        failed == IF ~success THEN ping.FailedPings + 1 ELSE ping.FailedPings
        scan   == RescanHistory(ping.History, 1, Len(ping.History))
        point  == [Timestamp |-> t, Latency |-> latency, Success |-> success]
        longer == Append(ping.History, point)
    IN  [Host        |-> ping.Host,
         LastLatency |-> IF success THEN latency ELSE ping.LastLatency,
         AvgLatency  |-> IF success /\ Len(ping.History) > 0
                         THEN GoDiv(latency + scan.total, 1 + scan.count)
                         ELSE ping.AvgLatency,
         PacketLoss  |-> [num |-> failed * 100, den |-> total],
         TotalPings  |-> total,
         FailedPings |-> failed,
         History     |-> IF Len(longer) > MaxHistoryPoints THEN Tail(longer) ELSE longer,
         LastUpdated |-> t]

\* the creation that seeds the average as StorePingData does
UpdatePingCreatedSeeded(host, latency, success, t) ==
    [Host        |-> host,
     LastLatency |-> latency,
     AvgLatency  |-> IF success THEN latency ELSE 0,
     PacketLoss  |-> IF success THEN [num |-> 0, den |-> 1] ELSE [num |-> 100, den |-> 1],
     TotalPings  |-> 1,
     FailedPings |-> IF success THEN 0 ELSE 1,
     History     |-> <<[Timestamp |-> t, Latency |-> latency, Success |-> success]>>,
     LastUpdated |-> t]

\* the branch taken for a new host: the literal leaves AvgLatency and
\* PacketLoss at their zero values, and a failed sample then sets
\* FailedPings to 1 and PacketLoss to 100
UpdatePingCreated(host, latency, success, t) ==
    [Host        |-> host,
     LastLatency |-> latency,
     AvgLatency  |-> 0,
     PacketLoss  |-> IF ~success THEN [num |-> 100, den |-> 1] ELSE [num |-> 0, den |-> 1],
     TotalPings  |-> 1,
     FailedPings |-> IF ~success THEN 1 ELSE 0,
     History     |-> <<[Timestamp |-> t, Latency |-> latency, Success |-> success]>>,
     LastUpdated |-> t]

\* the map s.PingResults after UpdatePing(host, latency, success) at time t
UpdatePingAfter(pings, host, latency, success, t) ==
    IF host \in DOMAIN pings
    THEN [pings EXCEPT ![host] = UpdatePingExisting(pings[host], latency, success, t)]
    ELSE MapPut(pings, host, UpdatePingCreated(host, latency, success, t))

\* the method from s.mu.Lock() to its return, on the second store
UpdatePing(host, latency, success) ==
    twinPings' = UpdatePingAfter(twinPings, host, latency, success, now)

(***************************************************************************)
(* Store.UpdateInterface                                                   *)
(***************************************************************************)
\* the literal 0 of SpeedRx / SpeedTx
ZeroSpeed == [wrap |-> 0, diff |-> 0, secs |-> 1]

\* float64(bytes - iface.Bytes) / timeDiff: the subtraction is the uint64 one,
\* its result is wrap * 2^64 + diff
SpeedOf(bytes, oldBytes, timeDiff) ==
    [wrap |-> IF bytes < oldBytes THEN 1 ELSE 0,
     diff |-> bytes - oldBytes,
     secs |-> timeDiff]

\* the append that never shortens the history
AppendDataPointUnbounded(history, point) == Append(history, point)

\* iface.History = append(iface.History, point), then History[1:] when the
\* length exceeds MaxHistoryPoints
AppendDataPoint(history, point) ==
    LET appended == Append(history, point)
    IN  IF Len(appended) > MaxHistoryPoints THEN Tail(appended) ELSE appended

\* the update that clears the speeds when no time has elapsed
InterfaceUpdatedClearingSpeed(iface, bytesRx, bytesTx, packetsRx, packetsTx, t) ==
    LET timeDiff == t - iface.LastCheck
        speedRx  == IF timeDiff > 0 THEN SpeedOf(bytesRx, iface.BytesRx, timeDiff)
                    ELSE ZeroSpeed
        speedTx  == IF timeDiff > 0 THEN SpeedOf(bytesTx, iface.BytesTx, timeDiff)
                    ELSE ZeroSpeed
        point    == [Timestamp |-> t, BytesRx |-> bytesRx, BytesTx |-> bytesTx,
                     SpeedRx |-> speedRx, SpeedTx |-> speedTx]
    IN  [Name      |-> iface.Name,
         BytesRx   |-> bytesRx,
         BytesTx   |-> bytesTx,
         PacketsRx |-> packetsRx,
         PacketsTx |-> packetsTx,
         SpeedRx   |-> speedRx,
         SpeedTx   |-> speedTx,
         History   |-> AppendDataPoint(iface.History, point),
         LastCheck |-> t]

\* the branch taken when s.Interfaces[name] exists
InterfaceUpdated(iface, bytesRx, bytesTx, packetsRx, packetsTx, t) ==
    LET timeDiff == t - iface.LastCheck
        speedRx  == IF timeDiff > 0 THEN SpeedOf(bytesRx, iface.BytesRx, timeDiff)
                    ELSE iface.SpeedRx
        speedTx  == IF timeDiff > 0 THEN SpeedOf(bytesTx, iface.BytesTx, timeDiff)
                    ELSE iface.SpeedTx
        point    == [Timestamp |-> t, BytesRx |-> bytesRx, BytesTx |-> bytesTx,
                     SpeedRx |-> speedRx, SpeedTx |-> speedTx]
    IN  [Name      |-> iface.Name,
         BytesRx   |-> bytesRx,
         BytesTx   |-> bytesTx,
         PacketsRx |-> packetsRx,
         PacketsTx |-> packetsTx,
         SpeedRx   |-> speedRx,
         SpeedTx   |-> speedTx,
         History   |-> AppendDataPoint(iface.History, point),
         LastCheck |-> t]

\* the creation that already records the first reading as a history point
InterfaceCreatedWithPoint(name, bytesRx, bytesTx, packetsRx, packetsTx, t) ==
    [Name      |-> name,
     BytesRx   |-> bytesRx,
     BytesTx   |-> bytesTx,
     PacketsRx |-> packetsRx,
     PacketsTx |-> packetsTx,
     SpeedRx   |-> ZeroSpeed,
     SpeedTx   |-> ZeroSpeed,
     History   |-> <<[Timestamp |-> t, BytesRx |-> bytesRx, BytesTx |-> bytesTx,
                     SpeedRx |-> ZeroSpeed, SpeedTx |-> ZeroSpeed]>>,
     LastCheck |-> t]

\* the branch taken for a new interface
InterfaceCreated(name, bytesRx, bytesTx, packetsRx, packetsTx, t) ==
    [Name      |-> name,
     BytesRx   |-> bytesRx,
     BytesTx   |-> bytesTx,
     PacketsRx |-> packetsRx,
     PacketsTx |-> packetsTx,
     SpeedRx   |-> ZeroSpeed,
     SpeedTx   |-> ZeroSpeed,
     History   |-> <<>>,
     LastCheck |-> t]

\* the map s.Interfaces after UpdateInterface(name, ...) at time t
InterfacesAfter(ifaces, name, bytesRx, bytesTx, packetsRx, packetsTx, t) ==
    IF name \in DOMAIN ifaces
    THEN [ifaces EXCEPT ![name] =
             InterfaceUpdated(ifaces[name], bytesRx, bytesTx, packetsRx, packetsTx, t)]
    ELSE MapPut(ifaces, name,
                InterfaceCreated(name, bytesRx, bytesTx, packetsRx, packetsTx, t))

\* the method from s.mu.Lock() to its return
UpdateInterfaceBody(name, bytesRx, bytesTx, packetsRx, packetsTx) ==
    /\ Interfaces' = InterfacesAfter(Interfaces, name, bytesRx, bytesTx,
                                     packetsRx, packetsTx, now)
    /\ LastUpdated' = now
    /\ lastOp' = [op |-> "UpdateInterface", key |-> name,
                  bytesRx |-> bytesRx, bytesTx |-> bytesTx,
                  packetsRx |-> packetsRx, packetsTx |-> packetsTx,
                  existed |-> name \in DOMAIN Interfaces,
                  elapsed |-> IF name \in DOMAIN Interfaces
                              THEN now - Interfaces[name].LastCheck ELSE 0,
                  wasFull |-> /\ name \in DOMAIN Interfaces
                              /\ Len(Interfaces[name].History) = MaxHistoryPoints]
    /\ nCalls' = nCalls + 1
    /\ UNCHANGED <<now, Devices, PingResults, snapInterfaces, snapDevices,
                   snapPings, probeLog>>

\* one of the calls the exploration is bounded to
UpdateInterface(name, bytesRx, bytesTx, packetsRx, packetsTx) ==
    /\ nCalls < MaxCalls
    /\ UpdateInterfaceBody(name, bytesRx, bytesTx, packetsRx, packetsTx)

(***************************************************************************)
(* Store.UpdateDevice                                                      *)
(***************************************************************************)
\* a field overwritten by every non-empty value
LastWriteWins(current, incoming) == IF incoming # "" THEN incoming ELSE current

\* if incoming != "" && device.Field == "" { device.Field = incoming }
StickyField(current, incoming) ==
    IF incoming # "" /\ current = "" THEN incoming ELSE current

\* the branch taken when s.Devices[ip] exists
DeviceUpdated(device, mac, hostname, t) ==
    [IP       |-> device.IP,
     MAC      |-> StickyField(device.MAC, mac),
     Hostname |-> StickyField(device.Hostname, hostname),
     LastSeen |-> t,
     IsActive |-> TRUE,
     Vendor   |-> device.Vendor]

\* the branch taken for a new device
DeviceCreated(ip, mac, hostname, t) ==
    [IP       |-> ip,
     MAC      |-> mac,
     Hostname |-> hostname,
     LastSeen |-> t,
     IsActive |-> TRUE,
     Vendor   |-> ""]

\* the map s.Devices after UpdateDevice(ip, mac, hostname) at time t
DevicesAfter(devices, ip, mac, hostname, t) ==
    IF ip \in DOMAIN devices
    THEN [devices EXCEPT ![ip] = DeviceUpdated(devices[ip], mac, hostname, t)]
    ELSE MapPut(devices, ip, DeviceCreated(ip, mac, hostname, t))

\* the update that stamps the store as the other two do
UpdateDeviceBodyStamping(ip, mac, hostname) ==
    /\ Devices' = DevicesAfter(Devices, ip, mac, hostname, now)
    /\ LastUpdated' = now
    /\ lastOp' = [op |-> "UpdateDevice", key |-> ip, mac |-> mac,
                  hostname |-> hostname, existed |-> ip \in DOMAIN Devices]
    /\ nCalls' = nCalls + 1
    /\ UNCHANGED <<now, Interfaces, PingResults, snapInterfaces,
                   snapDevices, snapPings, probeLog>>

\* the method from s.mu.Lock() to its return
UpdateDeviceBody(ip, mac, hostname) ==
    /\ Devices' = DevicesAfter(Devices, ip, mac, hostname, now)
    /\ lastOp' = [op |-> "UpdateDevice", key |-> ip, mac |-> mac,
                  hostname |-> hostname, existed |-> ip \in DOMAIN Devices]
    /\ nCalls' = nCalls + 1
    /\ UNCHANGED <<now, Interfaces, PingResults, LastUpdated, snapInterfaces,
                   snapDevices, snapPings, probeLog>>

\* one of the calls the exploration is bounded to
UpdateDevice(ip, mac, hostname) ==
    /\ nCalls < MaxCalls
    /\ UpdateDeviceBody(ip, mac, hostname)

(***************************************************************************)
(* Store.GetInterfaces, Store.GetDevices, Store.GetPings                   *)
(***************************************************************************)
\* result[k] = v: the new map holds the pointers the store holds
PointerCopy(m) == [k \in DOMAIN m |-> k]

\* what a holder of a map of pointers reads through it
Deref(snapshot, heap) == [k \in DOMAIN snapshot |-> heap[snapshot[k]]]

GetInterfaces ==
    /\ snapInterfaces' = PointerCopy(Interfaces)
    /\ lastOp' = [op |-> "GetInterfaces", at |-> now]
    /\ UNCHANGED <<now, Interfaces, Devices, PingResults, LastUpdated,
                   snapDevices, snapPings, probeLog, nCalls>>

\* device := *v; if device.LastSeen.Before(cutoff) { device.IsActive = false }
AgedDevice(device, cutoff) ==
    IF device.LastSeen < cutoff
    THEN [device EXCEPT !.IsActive = FALSE]
    ELSE device

\* the map GetDevices returns at time t
DevicesSnapshot(devices, t) ==
    LET cutoff == t - FiveMinutes
    IN  [k \in DOMAIN devices |-> AgedDevice(devices[k], cutoff)]

\* the read that stores the aged flag instead of keeping it in the copy
GetDevicesWritingBack ==
    /\ snapDevices' = DevicesSnapshot(Devices, now)
    /\ Devices' = DevicesSnapshot(Devices, now)
    /\ lastOp' = [op |-> "GetDevices", at |-> now]
    /\ UNCHANGED <<now, Interfaces, PingResults, LastUpdated,
                   snapInterfaces, snapPings, probeLog, nCalls>>

GetDevices ==
    /\ snapDevices' = DevicesSnapshot(Devices, now)
    /\ lastOp' = [op |-> "GetDevices", at |-> now]
    /\ UNCHANGED <<now, Interfaces, Devices, PingResults, LastUpdated,
                   snapInterfaces, snapPings, probeLog, nCalls>>

\* the read that keeps returning the map it built first
GetPingsCached ==
    /\ snapPings' = IF snapPings = EmptyMap THEN PointerCopy(PingResults) ELSE snapPings
    /\ lastOp' = [op |-> "GetPings", at |-> now]
    /\ UNCHANGED <<now, Interfaces, Devices, PingResults, LastUpdated,
                   snapInterfaces, snapDevices, probeLog, nCalls>>

GetPings ==
    /\ snapPings' = PointerCopy(PingResults)
    /\ lastOp' = [op |-> "GetPings", at |-> now]
    /\ UNCHANGED <<now, Interfaces, Devices, PingResults, LastUpdated,
                   snapInterfaces, snapDevices, probeLog, nCalls>>

(***************************************************************************)
(* The clock: time.Now() is monotonic; it moves on to a later instant.     *)
(***************************************************************************)
Tick(horizon) ==
    /\ \E t \in Instants :
          /\ t > now
          /\ t <= horizon
          /\ now' = t
    /\ lastOp' = [op |-> "Tick"]
    /\ UNCHANGED <<Interfaces, Devices, PingResults, LastUpdated,
                   snapInterfaces, snapDevices, snapPings, probeLog, nCalls>>
    /\ UNCHANGED callerVars

(***************************************************************************)
(* Recording of probes: the store as StorePingData alone drives it, from   *)
(* an empty store or from a store in which one host already has            *)
(* PrefillLen successful samples (the oldest one slower than the others).  *)
(***************************************************************************)
PrefillSample(i) == [rtt |-> IF i = 1 THEN 1010 ELSE 10, success |-> TRUE]

\* the store after samples lo..hi of the pre-fill were recorded for host, one
\* after the other in this order
RECURSIVE ReplayPings(_, _, _, _)
ReplayPings(pings, host, lo, hi) ==
    IF lo > hi
    THEN pings
    ELSE IF lo = hi
         THEN PingResultsAfter(pings, host, PrefillSample(lo).rtt,
                               PrefillSample(lo).success, 0)
         ELSE LET mid   == (lo + hi) \div 2
                  first == ReplayPings(pings, host, lo, mid)
              IN  IF first[host].TotalPings = mid
                  THEN ReplayPings(first, host, mid + 1, hi)
                  ELSE first

\* the PingCollector NewPingCollector returns when getGatewayIP() returned
\* gateway, before Start; no target was probed
NewPingCollector(gateway) ==
    [targets  |-> IF gateway # "" THEN <<gateway>> \o Targets ELSE Targets,
     phase    |-> "new",
     next     |-> 1,
     passes   |-> 0,
     ticks    |-> 0,
     seen     |-> FALSE,
     icmp     |-> [ok |-> FALSE, rtt |-> 0],
     tcp      |-> [port \in DOMAIN DialTime |-> [ok |-> FALSE, rtt |-> 0]],
     result   |-> [Host |-> "", RTT |-> 0, Success |-> FALSE, Method |-> ""],
     attempts |-> <<>>]

\* no goroutine is inside a store method; the ping collector is in its
\* first pass and no target was probed
CallersInit ==
    /\ mu = [writer |-> "", readers |-> {}]
    /\ pc = [p \in Writers \cup Readers |-> "out"]
    /\ probe = [NewPingCollector("") EXCEPT !.phase = "pass"]
    /\ traffic = [phase |-> "idle"]
    /\ discovery = [phase |-> "idle"]
    /\ twinPings = EmptyMap
    /\ live = NoLiveData

StoreInit ==
    /\ CallersInit
    /\ now = 0
    /\ Interfaces = EmptyMap
    /\ Devices = EmptyMap
    /\ PingResults = EmptyMap
    /\ LastUpdated = 0
    /\ snapInterfaces = EmptyMap
    /\ snapDevices = EmptyMap
    /\ snapPings = EmptyMap
    /\ probeLog = EmptyMap
    /\ lastOp = [op |-> "NewStore"]
    /\ nCalls = 0

PingInit ==
    /\ CallersInit
    /\ now = 0
    /\ Interfaces = EmptyMap
    /\ Devices = EmptyMap
    /\ \E n \in {0, PrefillLen} :
          /\ PingResults = ReplayPings(EmptyMap, "8.8.8.8", 1, n)
          /\ probeLog = IF n = 0 THEN EmptyMap
                        ELSE [h \in {"8.8.8.8"} |-> [i \in 1..n |-> PrefillSample(i)]]
    /\ LastUpdated = 0
    /\ snapInterfaces = EmptyMap
    /\ snapDevices = EmptyMap
    /\ snapPings = EmptyMap
    /\ lastOp = [op |-> "NewStore"]
    /\ nCalls = 0

PingNext ==
    \/ \E host \in Hosts, rtt \in Latencies, success \in BOOLEAN :
          \E method \in MethodsOf(success) :
             StorePingData(host, rtt, success, method) /\ UNCHANGED callerVars
    \/ Tick(HistoryHorizon)

SpecPing == PingInit /\ [][PingNext]_vars

(***************************************************************************)
(* StorePingData and UpdatePing side by side: every sample is recorded by  *)
(* StorePingData in the store and by UpdatePing in a second store, at the  *)
(* same time.                                                              *)
(***************************************************************************)
\* the second store after samples lo..hi of the pre-fill were recorded for
\* host by UpdatePing, one after the other in this order
RECURSIVE ReplayUpdatePing(_, _, _, _)
ReplayUpdatePing(pings, host, lo, hi) ==
    IF lo > hi
    THEN pings
    ELSE IF lo = hi
         THEN UpdatePingAfter(pings, host, PrefillSample(lo).rtt,
                              PrefillSample(lo).success, 0)
         ELSE LET mid   == (lo + hi) \div 2
                  first == ReplayUpdatePing(pings, host, lo, mid)
              IN  IF first[host].TotalPings = mid
                  THEN ReplayUpdatePing(first, host, mid + 1, hi)
                  ELSE first

TwinInit ==
    /\ now = 0
    /\ Interfaces = EmptyMap
    /\ Devices = EmptyMap
    /\ \E n \in {0, PrefillLen} :
          /\ PingResults = ReplayPings(EmptyMap, "8.8.8.8", 1, n)
          /\ twinPings = ReplayUpdatePing(EmptyMap, "8.8.8.8", 1, n)
          /\ probeLog = IF n = 0 THEN EmptyMap
                        ELSE [h \in {"8.8.8.8"} |-> [i \in 1..n |-> PrefillSample(i)]]
    /\ LastUpdated = 0
    /\ snapInterfaces = EmptyMap
    /\ snapDevices = EmptyMap
    /\ snapPings = EmptyMap
    /\ lastOp = [op |-> "NewStore"]
    /\ nCalls = 0
    /\ mu = [writer |-> "", readers |-> {}]
    /\ pc = [p \in Writers \cup Readers |-> "out"]
    /\ probe = [NewPingCollector("") EXCEPT !.phase = "pass"]
    /\ traffic = [phase |-> "idle"]
    /\ discovery = [phase |-> "idle"]
    /\ live = NoLiveData

\* one sample is recorded by both functions
RecordBoth ==
    /\ nCalls < MaxSamples
    /\ \E host \in Hosts, rtt \in Latencies, success \in BOOLEAN :
          \E method \in MethodsOf(success) :
             /\ StorePingDataBody(host, rtt, success, method)
             /\ UpdatePing(host, rtt, success)
    /\ UNCHANGED <<mu, pc, probe, traffic, discovery, live>>

TwinNext ==
    \/ RecordBoth
    \/ Tick(HistoryHorizon)

SpecTwin == TwinInit /\ [][TwinNext]_vars

(***************************************************************************)
(* Traffic samples: the store as UpdateInterface alone drives it, from an  *)
(* empty store or from a store in which one interface already has          *)
(* PrefillLen history points.                                              *)
(***************************************************************************)
\* the i-th reading of the pre-fill: counters that grow with i
PrefillReading(i) == <<1000 + (10 * i), 500 + (5 * i), 10 + i, 5 + i>>

\* the store after readings lo..hi of the pre-fill were passed to
\* UpdateInterface for name, one after the other in this order
RECURSIVE ReplayInterfaces(_, _, _, _)
ReplayInterfaces(ifaces, name, lo, hi) ==
    IF lo > hi
    THEN ifaces
    ELSE IF lo = hi
         THEN InterfacesAfter(ifaces, name, PrefillReading(lo)[1], PrefillReading(lo)[2],
                              PrefillReading(lo)[3], PrefillReading(lo)[4], 0)
         ELSE LET mid   == (lo + hi) \div 2
                  first == ReplayInterfaces(ifaces, name, lo, mid)
              IN  IF first[name].LastCheck = 0
                  THEN ReplayInterfaces(first, name, mid + 1, hi)
                  ELSE first

IfaceInit ==
    /\ CallersInit
    /\ now = 0
    /\ \E n \in {0, PrefillLen + 1} :
          Interfaces = ReplayInterfaces(EmptyMap, "eth0", 1, n)
    /\ Devices = EmptyMap
    /\ PingResults = EmptyMap
    /\ LastUpdated = 0
    /\ snapInterfaces = EmptyMap
    /\ snapDevices = EmptyMap
    /\ snapPings = EmptyMap
    /\ probeLog = EmptyMap
    /\ lastOp = [op |-> "NewStore"]
    /\ nCalls = 0

IfaceNext ==
    \/ \E name \in Names, r \in IOSamples :
          UpdateInterface(name, r[1], r[2], r[3], r[4]) /\ UNCHANGED callerVars
    \/ Tick(HistoryHorizon)

SpecIface == IfaceInit /\ [][IfaceNext]_vars

(***************************************************************************)
(* Devices: UpdateDevice and GetDevices on an initially empty store, with  *)
(* a clock that runs past five minutes.                                    *)
(***************************************************************************)
DevNext ==
    \/ \E ip \in IPs, mac \in MACs, hostname \in Hostnames :
          UpdateDevice(ip, mac, hostname) /\ UNCHANGED callerVars
    \/ GetDevices /\ UNCHANGED callerVars
    \/ Tick(MaxTime)

SpecDev == StoreInit /\ [][DevNext]_vars

(***************************************************************************)
(* The store with all its updates and snapshot reads.                      *)
(***************************************************************************)
Init == StoreInit

Next ==
    \/ \E name \in Names, r \in IOSamples :
          UpdateInterface(name, r[1], r[2], r[3], r[4]) /\ UNCHANGED callerVars
    \/ \E ip \in IPs, mac \in MACs, hostname \in Hostnames :
          UpdateDevice(ip, mac, hostname) /\ UNCHANGED callerVars
    \/ \E host \in Hosts, rtt \in Latencies, success \in BOOLEAN :
          \E method \in MethodsOf(success) :
             StorePingData(host, rtt, success, method) /\ UNCHANGED callerVars
    \/ GetInterfaces /\ UNCHANGED callerVars
    \/ GetDevices /\ UNCHANGED callerVars
    \/ GetPings /\ UNCHANGED callerVars
    \/ Tick(HistoryHorizon)

Spec == Init /\ [][Next]_vars

(***************************************************************************)
(* The ping collector: collectPingData probes the targets in turn and      *)
(* records each result.  What the network answers is an input.             *)
(***************************************************************************)
\* the loop over tcpPorts from position i on, and the result after it
RECURSIVE TcpFallback(_, _, _)
TcpFallback(host, tcp, i) ==
    IF i > Len(tcpPorts)
    THEN [Host |-> host, RTT |-> 0, Success |-> FALSE, Method |-> "FAILED"]
    ELSE IF tcp[tcpPorts[i]].ok
         THEN [Host |-> host, RTT |-> tcp[tcpPorts[i]].rtt, Success |-> TRUE,
               Method |-> "TCP:" \o tcpPorts[i]]
         ELSE TcpFallback(host, tcp, i + 1)

\* the probe that labels every success as ICMP
pingHostLabelledIcmp(host, icmp, tcp) ==
    IF icmp.ok
    THEN [Host |-> host, RTT |-> icmp.rtt, Success |-> TRUE, Method |-> "ICMP"]
    ELSE [TcpFallback(host, tcp, 1) EXCEPT
             !.Method = IF TcpFallback(host, tcp, 1).Success THEN "ICMP" ELSE @]

\* the probe that reports the time spent dialling when nothing answered
pingHostTimingFailure(host, icmp, tcp) ==
    IF icmp.ok
    THEN [Host |-> host, RTT |-> icmp.rtt, Success |-> TRUE, Method |-> "ICMP"]
    ELSE [TcpFallback(host, tcp, 1) EXCEPT
             !.RTT = IF TcpFallback(host, tcp, 1).Success THEN @ ELSE 5000]

\* pingHost(host), icmp being what pingICMP returns and tcp what tcpPing
\* returns for each port
pingHost(host, icmp, tcp) ==
    IF icmp.ok
    THEN [Host |-> host, RTT |-> icmp.rtt, Success |-> TRUE, Method |-> "ICMP"]
    ELSE TcpFallback(host, tcp, 1)

\* the ports tcpPing is called with by the loop over tcpPorts from position
\* i on, in the order of the calls
RECURSIVE TcpAttempts(_, _)
TcpAttempts(tcp, i) ==
    IF i > Len(tcpPorts)
    THEN <<>>
    ELSE IF tcp[tcpPorts[i]].ok
         THEN <<tcpPorts[i]>>
         ELSE <<tcpPorts[i]>> \o TcpAttempts(tcp, i + 1)

\* the attempts of the probe that dials the ports whatever the echo gave
pingAttemptsEager(icmp, tcp) == <<"ICMP">> \o TcpAttempts(tcp, 1)

\* the attempts pingHost makes, in order: the call of pingICMP, which sends
\* one echo request, then the calls of tcpPing
pingAttempts(icmp, tcp) ==
    <<"ICMP">> \o (IF icmp.ok THEN <<>> ELSE TcpAttempts(tcp, 1))

\* one iteration of the loop of collectPingData, icmp and tcp being what
\* the network answers: the probe of the next target and the recording of
\* its result; after the last target the collector waits for its ticker
ProbeNextTarget(icmp, tcp) ==
    LET target == probe.targets[probe.next]
        result == pingHost(target, icmp, tcp)
        last   == probe.next = Len(probe.targets)
    IN  /\ probe.phase = "pass"
        /\ StorePingDataBody(target, result.RTT, result.Success, result.Method)
        /\ probe' = [probe EXCEPT !.next     = IF last THEN 1 ELSE probe.next + 1,
                                  !.phase    = IF last THEN "wait" ELSE "pass",
                                  !.passes   = IF last THEN probe.passes + 1 ELSE probe.passes,
                                  !.seen     = TRUE,
                                  !.icmp     = icmp,
                                  !.tcp      = tcp,
                                  !.result   = result,
                                  !.attempts = pingAttempts(icmp, tcp)]
        /\ UNCHANGED <<mu, pc, traffic, discovery, twinPings, live>>

\* one of the iterations the exploration is bounded to, with every answer
\* of the network
collectPingData ==
    /\ nCalls < MaxCalls
    /\ \E icmp \in IcmpOutcomes, tcp \in TcpOutcomes : ProbeNextTarget(icmp, tcp)

ProbeNext ==
    \/ collectPingData
    \/ Tick(HistoryHorizon)

SpecProbe == StoreInit /\ [][ProbeNext]_vars

(***************************************************************************)
(* PingCollector.Start: a pass over the targets at once, then one pass for *)
(* every tick received from the ticker.                                    *)
(***************************************************************************)
PingStartInit ==
    /\ now = 0
    /\ Interfaces = EmptyMap
    /\ Devices = EmptyMap
    /\ PingResults = EmptyMap
    /\ LastUpdated = 0
    /\ snapInterfaces = EmptyMap
    /\ snapDevices = EmptyMap
    /\ snapPings = EmptyMap
    /\ probeLog = EmptyMap
    /\ lastOp = [op |-> "NewStore"]
    /\ nCalls = 0
    /\ mu = [writer |-> "", readers |-> {}]
    /\ pc = [p \in Writers \cup Readers |-> "out"]
    /\ \E gateway \in Gateways : probe = NewPingCollector(gateway)
    /\ traffic = [phase |-> "idle"]
    /\ discovery = [phase |-> "idle"]
    /\ twinPings = EmptyMap
    /\ live = NoLiveData

\* the start that waits for the first tick, as "for range ticker.C" does
StartPingAtFirstTick ==
    /\ probe.phase = "new"
    /\ probe' = [probe EXCEPT !.phase = "wait"]
    /\ UNCHANGED <<now, Interfaces, Devices, PingResults, LastUpdated, snapInterfaces,
                   snapDevices, snapPings, probeLog, lastOp, nCalls, mu, pc,
                   traffic, discovery, twinPings, live>>

\* Start is called: the ticker is created and the initial collection begins
StartPing ==
    /\ probe.phase = "new"
    /\ probe' = [probe EXCEPT !.phase = "pass"]
    /\ UNCHANGED <<now, Interfaces, Devices, PingResults, LastUpdated, snapInterfaces,
                   snapDevices, snapPings, probeLog, lastOp, nCalls, mu, pc,
                   traffic, discovery, twinPings, live>>

\* for range ticker.C: a tick is received and the next collection begins
PingTick ==
    /\ probe.phase = "wait"
    /\ nCalls < MaxProbes
    /\ probe' = [probe EXCEPT !.phase = "pass", !.ticks = probe.ticks + 1]
    /\ UNCHANGED <<now, Interfaces, Devices, PingResults, LastUpdated, snapInterfaces,
                   snapDevices, snapPings, probeLog, lastOp, nCalls, mu, pc,
                   traffic, discovery, twinPings, live>>

\* one of the probes the exploration is bounded to
PingPassStep ==
    /\ nCalls < MaxProbes
    /\ \E o \in PassOutcomes : ProbeNextTarget(o.icmp, o.tcp)

PingStartNext ==
    \/ StartPing
    \/ PingPassStep
    \/ PingTick

SpecPingStart == PingStartInit /\ [][PingStartNext]_vars

(***************************************************************************)
(* TrafficCollector.Start: collectTrafficStats at once and after every     *)
(* tick; collectTrafficStats queries the OS counters and passes every      *)
(* interface but the loopback ones to UpdateInterface.                     *)
(***************************************************************************)
\* the TrafficCollector NewTrafficCollector returns, before Start
NewTrafficCollector ==
    [phase    |-> "new",
     err      |-> FALSE,
     report   |-> <<>>,
     pending  |-> <<>>,
     calls    |-> <<>>,
     outcomes |-> <<>>]

TrafficInit ==
    /\ now = 0
    /\ Interfaces = EmptyMap
    /\ Devices = EmptyMap
    /\ PingResults = EmptyMap
    /\ LastUpdated = 0
    /\ snapInterfaces = EmptyMap
    /\ snapDevices = EmptyMap
    /\ snapPings = EmptyMap
    /\ probeLog = EmptyMap
    /\ lastOp = [op |-> "NewStore"]
    /\ nCalls = 0
    /\ mu = [writer |-> "", readers |-> {}]
    /\ pc = [p \in Writers \cup Readers |-> "out"]
    /\ probe = [NewPingCollector("") EXCEPT !.phase = "pass"]
    /\ traffic = NewTrafficCollector
    /\ discovery = [phase |-> "idle"]
    /\ twinPings = EmptyMap
    /\ live = NoLiveData

\* Start is called: the ticker is created and the loop is entered
StartTraffic ==
    /\ traffic.phase = "new"
    /\ traffic' = [traffic EXCEPT !.phase = "query"]
    /\ UNCHANGED <<now, Interfaces, Devices, PingResults, LastUpdated, snapInterfaces,
                   snapDevices, snapPings, probeLog, lastOp, nCalls, mu, pc,
                   probe, discovery, twinPings, live>>

\* the query after whose failure the collector returns from Start
IOCountersStoppingOnError(err, report) ==
    /\ traffic.phase = "query"
    /\ traffic' = [traffic EXCEPT
                      !.phase    = IF err THEN "stopped"
                                   ELSE IF report = <<>> THEN "wait" ELSE "loop",
                      !.err      = err,
                      !.report   = IF err THEN <<>> ELSE report,
                      !.pending  = IF err THEN <<>> ELSE report,
                      !.calls    = <<>>,
                      !.outcomes = Append(@, IF err THEN "err" ELSE "ok")]
    /\ UNCHANGED <<now, Interfaces, Devices, PingResults, LastUpdated, snapInterfaces,
                   snapDevices, snapPings, probeLog, lastOp, nCalls, mu, pc,
                   probe, discovery, twinPings, live>>

\* collectTrafficStats up to its loop: net.IOCounters(true) returns the
\* error err or the list report; on an error the function logs and returns
IOCounters(err, report) ==
    /\ traffic.phase = "query"
    /\ traffic' = [traffic EXCEPT
                      !.phase    = IF err \/ report = <<>> THEN "wait" ELSE "loop",
                      !.err      = err,
                      !.report   = IF err THEN <<>> ELSE report,
                      !.pending  = IF err THEN <<>> ELSE report,
                      !.calls    = <<>>,
                      !.outcomes = Append(@, IF err THEN "err" ELSE "ok")]
    /\ UNCHANGED <<now, Interfaces, Devices, PingResults, LastUpdated, snapInterfaces,
                   snapDevices, snapPings, probeLog, lastOp, nCalls, mu, pc,
                   probe, discovery, twinPings, live>>

\* one of the queries the exploration is bounded to, with every answer
QueryCounters ==
    /\ Len(traffic.outcomes) < MaxQueries
    /\ \/ IOCounters(TRUE, <<>>)
       \/ \E report \in CounterReports : IOCounters(FALSE, report)

\* the test that knows the Linux name only
SkippedLinuxOnly(name) == name = "lo"

\* iface.Name == "lo" || iface.Name == "Loopback Pseudo-Interface 1"
Skipped(name) == name = "lo" \/ name = "Loopback Pseudo-Interface 1"

\* one iteration of the loop of collectTrafficStats; after the last
\* interface the collector waits for its ticker
NextInterface ==
    LET iface == Head(traffic.pending)
        rest  == Tail(traffic.pending)
    IN  /\ traffic.phase = "loop"
        /\ IF Skipped(iface.Name)
           THEN /\ traffic' = [traffic EXCEPT
                                 !.pending = rest,
                                 !.phase   = IF rest = <<>> THEN "wait" ELSE "loop"]
                /\ UNCHANGED <<now, Interfaces, Devices, PingResults, LastUpdated,
                               snapInterfaces, snapDevices, snapPings, probeLog,
                               lastOp, nCalls>>
           ELSE /\ UpdateInterfaceBody(iface.Name, iface.BytesRecv, iface.BytesSent,
                                       iface.PacketsRecv, iface.PacketsSent)
                /\ traffic' = [traffic EXCEPT
                                 !.pending = rest,
                                 !.phase   = IF rest = <<>> THEN "wait" ELSE "loop",
                                 !.calls   = Append(@, iface.Name)]
        /\ UNCHANGED <<mu, pc, probe, discovery, twinPings, live>>

\* <-ticker.C: a tick is received, an interval after the previous one
TrafficTick ==
    /\ traffic.phase = "wait"
    /\ Len(traffic.outcomes) < MaxQueries
    /\ traffic' = [traffic EXCEPT !.phase = "query"]
    /\ now' = now + TrafficInterval
    /\ UNCHANGED <<Interfaces, Devices, PingResults, LastUpdated, snapInterfaces,
                   snapDevices, snapPings, probeLog, lastOp, nCalls, mu, pc,
                   probe, discovery, twinPings, live>>

TrafficNext ==
    \/ StartTraffic
    \/ QueryCounters
    \/ NextInterface
    \/ TrafficTick

SpecTraffic == TrafficInit /\ [][TrafficNext]_vars

(***************************************************************************)
(* The device collector: getLocalSubnet, applied to what net.Interfaces()  *)
(* reports.                                                                *)
(***************************************************************************)
\* the inner loop over addrs from position j on: the first IPv4 network, or
\* "" when the loop ends without a return
RECURSIVE FirstIPv4(_, _)
FirstIPv4(addrs, j) ==
    IF j > Len(addrs) THEN ""
    ELSE IF addrs[j].V4 THEN addrs[j].Net
    ELSE FirstIPv4(addrs, j + 1)

\* the loop over ifaces from position i on
RECURSIVE SubnetFrom(_, _)
SubnetFrom(ifaces, i) ==
    IF i > Len(ifaces) THEN ""
    ELSE IF FirstIPv4(ifaces[i].Addrs, 1) # "" THEN FirstIPv4(ifaces[i].Addrs, 1)
    ELSE SubnetFrom(ifaces, i + 1)

\* getLocalSubnet(), err telling whether net.Interfaces() failed
getLocalSubnet(err, ifaces) == IF err THEN "" ELSE SubnetFrom(ifaces, 1)

\* net.Interfaces() answers and getLocalSubnet returns
DetectSubnet ==
    /\ discovery.phase = "idle"
    /\ \E err \in BOOLEAN, ifaces \in IfaceLists :
          discovery' = [phase  |-> "subnet",
                        err    |-> err,
                        ifaces |-> IF err THEN <<>> ELSE ifaces,
                        subnet |-> getLocalSubnet(err, ifaces)]
    /\ UNCHANGED <<now, Interfaces, Devices, PingResults, LastUpdated, snapInterfaces,
                   snapDevices, snapPings, probeLog, lastOp, nCalls, mu, pc, probe,
                   traffic, twinPings, live>>

\* the next discovery tick starts
NextDiscovery ==
    /\ discovery.phase # "idle"
    /\ discovery' = [phase |-> "idle"]
    /\ UNCHANGED <<now, Interfaces, Devices, PingResults, LastUpdated, snapInterfaces,
                   snapDevices, snapPings, probeLog, lastOp, nCalls, mu, pc, probe,
                   traffic, twinPings, live>>

SubnetNext ==
    \/ DetectSubnet
    \/ NextDiscovery

SpecSubnet == StoreInit /\ [][SubnetNext]_vars

(***************************************************************************)
(* The device collector: pingSweep.  A net.IP is its four bytes.           *)
(***************************************************************************)
\* the 16-bit numbers whose big-endian bytes are the first two and the last
\* two bytes of ip
HighHalf(ip) == (ip[1] * 256) + ip[2]

LowHalf(ip) == (ip[3] * 256) + ip[4]

\* the four bytes of two 16-bit halves
IPBytes(high, low) == <<high \div 256, high % 256, low \div 256, low % 256>>

\* the number of addresses a prefix of that length covers
BlockSize(bits) == 2 ^ (32 - bits)

\* ip.Mask(net.CIDRMask(bits, 32)): the host bits cleared
Mask(ip, bits) ==
    IF bits >= 16
    THEN IPBytes(HighHalf(ip), LowHalf(ip) - (LowHalf(ip) % (2 ^ (32 - bits))))
    ELSE IPBytes(HighHalf(ip) - (HighHalf(ip) % (2 ^ (16 - bits))), 0)

\* the IPNet net.ParseCIDR returns: IP is the address with the host bits
\* cleared (ipnet.IP.Mask(ipnet.Mask) leaves it as it is)
ParseCIDR(host, bits) == [IP |-> Mask(host, bits), Bits |-> bits]

\* ipnet.Contains(ip)
Contains(ipnet, ip) == Mask(ip, ipnet.Bits) = ipnet.IP

\* incIP applied k times: each application adds one to the last byte and
\* carries into the bytes before it, 255.255.255.255 becoming 0.0.0.0
incIP(ip, k) ==
    LET low == LowHalf(ip) + k
    IN  IPBytes((HighHalf(ip) + (low \div 65536)) % 65536, low % 65536)

\* strings.HasSuffix(ip.String(), ".0") || strings.HasSuffix(ip.String(), ".255"):
\* the dotted form ends with the decimal form of the last byte
EndsInZeroOr255(ip) == ip[4] = 0 \/ ip[4] = 255

\* the iterations lo..hi of the loop of pingSweep, the k-th one being at
\* incIP(ipnet.IP, k): the addresses passed to dc.ping and those that
\* answered, in the order of the loop.  The range is walked by halves, which
\* keeps the evaluation shallow.
RECURSIVE SweepRange(_, _, _, _)
SweepRange(ipnet, alive, lo, hi) ==
    IF lo > hi
    THEN [probed |-> <<>>, active |-> <<>>]
    ELSE IF lo = hi
         THEN LET ip == incIP(ipnet.IP, lo)
              IN  IF ~Contains(ipnet, ip) \/ EndsInZeroOr255(ip)
                  THEN [probed |-> <<>>, active |-> <<>>]
                  ELSE [probed |-> <<ip>>,
                        active |-> IF ip \in alive THEN <<ip>> ELSE <<>>]
         ELSE LET mid   == (lo + hi) \div 2
                  left  == SweepRange(ipnet, alive, lo, mid)
                  right == SweepRange(ipnet, alive, mid + 1, hi)
              IN  [probed |-> left.probed \o right.probed,
                   active |-> left.active \o right.active]

\* pingSweep(subnet): the loop runs from ipnet.IP until Contains fails, which
\* is after BlockSize iterations
pingSweep(host, bits, alive) ==
    SweepRange(ParseCIDR(host, bits), alive, 0, BlockSize(bits) - 1)

\* pingSweep runs on a subnet while some addresses answer
SweepSubnet ==
    /\ discovery.phase = "idle"
    /\ \E host \in SweepHosts, bits \in PrefixLengths, alive \in SUBSET SweepCandidates :
          discovery' = [phase  |-> "swept",
                        host   |-> host,
                        bits   |-> bits,
                        alive  |-> alive,
                        probed |-> pingSweep(host, bits, alive).probed,
                        active |-> pingSweep(host, bits, alive).active]
    /\ UNCHANGED <<now, Interfaces, Devices, PingResults, LastUpdated, snapInterfaces,
                   snapDevices, snapPings, probeLog, lastOp, nCalls, mu, pc, probe,
                   traffic, twinPings, live>>

SweepNext ==
    \/ SweepSubnet
    \/ NextDiscovery

SpecSweep == StoreInit /\ [][SweepNext]_vars

(***************************************************************************)
(* DeviceCollector.Start: discoverDevices at every tick.  discoverDevices  *)
(* reads the ARP table, sweeps the local subnet, merges the responders     *)
(* into the table and passes every device to UpdateDevice.                 *)
(***************************************************************************)
\* the loop of parseARPTable over the lines from position i on, devices
\* being the map built so far
RECURSIVE ScanArpLines(_, _, _)
ScanArpLines(devices, lines, i) ==
    IF i > Len(lines)
    THEN devices
    ELSE LET ip  == lines[i].IP
             mac == lines[i].MAC
         IN  ScanArpLines(IF ip # "" /\ mac # ""
                          THEN [x \in DOMAIN devices \cup {ip} |->
                                  IF x = ip THEN [IP |-> ip, MAC |-> mac, Hostname |-> ""]
                                  ELSE devices[x]]
                          ELSE devices,
                          lines, i + 1)

\* parseARPTable(), err telling whether the arp command failed: the map is
\* returned empty after the error is logged
parseARPTable(err, lines) ==
    IF err THEN EmptyMap ELSE ScanArpLines(EmptyMap, lines, 1)

\* ip.String() of an IPv4 address
IPString(ip) ==
    ToString(ip[1]) \o "." \o ToString(ip[2]) \o "." \o ToString(ip[3])
        \o "." \o ToString(ip[4])

\* net.ParseCIDR of the subnets getLocalSubnet returns in a discovery tick
SubnetHost(subnet) ==
    CASE subnet = "192.168.1.10/28" -> [host |-> <<192, 168, 1, 10>>, bits |-> 28]

\* the []string pingSweep(subnet) returns while the addresses of alive answer
SweepResponders(subnet, alive) ==
    LET cidr   == SubnetHost(subnet)
        active == pingSweep(cidr.host, cidr.bits, alive).active
    IN  [i \in DOMAIN active |-> IPString(active[i])]

\* the merge that enters every responder anew
MergeRespondersAnew(devices, responders, i) ==
    [x \in DOMAIN devices \cup {responders[j] : j \in i..Len(responders)} |->
        IF \E j \in i..Len(responders) : responders[j] = x
        THEN [IP |-> x, MAC |-> "", Hostname |-> ""]
        ELSE devices[x]]

\* the loop of discoverDevices over the responders from position i on:
\* if _, exists := devices[ip]; !exists { devices[ip] = &DeviceInfo{IP: ip} }
RECURSIVE MergeResponders(_, _, _)
MergeResponders(devices, responders, i) ==
    IF i > Len(responders)
    THEN devices
    ELSE LET ip == responders[i]
         IN  MergeResponders(IF ip \in DOMAIN devices
                             THEN devices
                             ELSE [x \in DOMAIN devices \cup {ip} |->
                                     IF x = ip THEN [IP |-> ip, MAC |-> "", Hostname |-> ""]
                                     ELSE devices[x]],
                             responders, i + 1)

\* strings.TrimSuffix(name, "."): the name without its last character when
\* that is a dot
TrimDot(name) ==
    IF Len(name) > 0 /\ SubSeq(name, Len(name), Len(name)) = "."
    THEN SubSeq(name, 1, Len(name) - 1)
    ELSE name

\* resolveHostname(ip): "" when the lookup fails or gives no name
resolveHostname(ip) ==
    IF ip \in ResolvableIPs THEN TrimDot(ResolvedName) ELSE ""

\* the DeviceCollector NewDeviceCollector returns, before Start
NewDeviceCollector ==
    [phase      |-> "new",
     arpErr     |-> FALSE,
     arp        |-> EmptyMap,
     subnet     |-> "",
     responders |-> <<>>,
     devices    |-> EmptyMap,
     pending    |-> {},
     calls      |-> <<>>,
     ticks      |-> 0]

DiscoveryInit ==
    /\ now = 0
    /\ Interfaces = EmptyMap
    /\ Devices = EmptyMap
    /\ PingResults = EmptyMap
    /\ LastUpdated = 0
    /\ snapInterfaces = EmptyMap
    /\ snapDevices = EmptyMap
    /\ snapPings = EmptyMap
    /\ probeLog = EmptyMap
    /\ lastOp = [op |-> "NewStore"]
    /\ nCalls = 0
    /\ mu = [writer |-> "", readers |-> {}]
    /\ pc = [p \in Writers \cup Readers |-> "out"]
    /\ probe = [NewPingCollector("") EXCEPT !.phase = "pass"]
    /\ traffic = [phase |-> "idle"]
    /\ discovery = NewDeviceCollector
    /\ twinPings = EmptyMap
    /\ live = NoLiveData

\* Start is called: the ticker is created and the loop waits for a tick
StartDiscovery ==
    /\ discovery.phase = "new"
    /\ discovery' = [discovery EXCEPT !.phase = "wait"]
    /\ UNCHANGED <<now, Interfaces, Devices, PingResults, LastUpdated, snapInterfaces,
                   snapDevices, snapPings, probeLog, lastOp, nCalls, mu, pc,
                   probe, traffic, twinPings, live>>

\* a tick is received and discoverDevices runs up to its last loop: the ARP
\* table is read (arpErr: the command failed), the subnet is taken from the
\* interfaces, it is swept while the addresses of alive answer, and the
\* responders are merged into the table
Discover(arpErr, lines, ifaces, alive) ==
    LET arp        == parseARPTable(arpErr, lines)
        subnet     == getLocalSubnet(FALSE, ifaces)
        responders == IF subnet # "" THEN SweepResponders(subnet, alive) ELSE <<>>
        devices    == MergeResponders(arp, responders, 1)
    IN  /\ discovery.phase = "wait"
        /\ discovery' = [phase      |-> IF DOMAIN devices = {} THEN "wait" ELSE "update",
                         arpErr     |-> arpErr,
                         arp        |-> arp,
                         subnet     |-> subnet,
                         responders |-> responders,
                         devices    |-> devices,
                         pending    |-> DOMAIN devices,
                         calls      |-> <<>>,
                         ticks      |-> discovery.ticks + 1]
        /\ now' = now + DeviceInterval
        /\ UNCHANGED <<Interfaces, Devices, PingResults, LastUpdated, snapInterfaces,
                       snapDevices, snapPings, probeLog, lastOp, nCalls, mu, pc,
                       probe, traffic, twinPings, live>>

\* one of the ticks the exploration is bounded to, with every answer of the
\* system
DiscoveryTick ==
    /\ discovery.ticks < MaxDiscoveries
    /\ \E ifaces \in DiscoveryIfaces, alive \in SUBSET DiscoveryCandidates :
          \/ Discover(TRUE, <<>>, ifaces, alive)
          \/ \E lines \in ArpOutputs : Discover(FALSE, lines, ifaces, alive)

\* one iteration of the last loop of discoverDevices, over the map devices
\* in the order Go happens to walk it: the hostname is looked up and the
\* device is passed to UpdateDevice
UpdateNextDevice ==
    /\ discovery.phase = "update"
    /\ \E ip \in discovery.pending :
          LET device   == discovery.devices[ip]
              hostname == IF device.Hostname = "" THEN resolveHostname(device.IP)
                          ELSE device.Hostname
          IN  /\ UpdateDeviceBody(device.IP, device.MAC, hostname)
              /\ discovery' = [discovery EXCEPT
                                  !.devices[ip].Hostname = hostname,
                                  !.pending = @ \ {ip},
                                  !.calls   = Append(@, ip),
                                  !.phase   = IF discovery.pending = {ip}
                                              THEN "wait" ELSE "update"]
    /\ UNCHANGED <<mu, pc, probe, traffic, twinPings, live>>

DiscoveryNext ==
    \/ StartDiscovery
    \/ DiscoveryTick
    \/ UpdateNextDevice

SpecDiscovery == DiscoveryInit /\ [][DiscoveryNext]_vars

(***************************************************************************)
(* Handler.HandleWebSocket: at every tick getLiveData reads the three      *)
(* snapshots, counts the devices and adds up the speeds, and WriteJSON     *)
(* encodes the result, while the collectors go on updating the store.      *)
(* The maps of interfaces and pings hold the store's pointers: the loop    *)
(* over the interfaces and the encoder read the fields through them,       *)
(* without the lock, at the time they run.                                 *)
(***************************************************************************)
\* the float64 sum of two speeds, kept exact
AddSpeed(a, b) ==
    [wrap |-> (a.wrap * b.secs) + (b.wrap * a.secs),
     diff |-> (a.diff * b.secs) + (b.diff * a.secs),
     secs |-> a.secs * b.secs]

\* interfaces := h.store.GetInterfaces()
LiveGetInterfaces ==
    /\ live.phase = "idle"
    /\ GetInterfaces
    /\ live' = [phase |-> "interfaces"]
    /\ UNCHANGED <<mu, pc, probe, traffic, discovery, twinPings>>

\* devices := h.store.GetDevices()
LiveGetDevices ==
    /\ live.phase = "interfaces"
    /\ GetDevices
    /\ live' = [phase |-> "devices"]
    /\ UNCHANGED <<mu, pc, probe, traffic, discovery, twinPings>>

\* pings := h.store.GetPings()
LiveGetPings ==
    /\ live.phase = "devices"
    /\ GetPings
    /\ live' = [phase |-> "pings"]
    /\ UNCHANGED <<mu, pc, probe, traffic, discovery, twinPings>>

\* the loop over devices, which are copies: activeCount, and len(devices)
CountDevices ==
    /\ live.phase = "pings"
    /\ live' = [phase          |-> "summing",
                active_devices |-> Cardinality({k \in DOMAIN snapDevices :
                                                   snapDevices[k].IsActive}),
                total_devices  |-> Cardinality(DOMAIN snapDevices),
                total_rx       |-> ZeroSpeed,
                total_tx       |-> ZeroSpeed,
                pending        |-> DOMAIN snapInterfaces]
    /\ UNCHANGED <<now, Interfaces, Devices, PingResults, LastUpdated, snapInterfaces,
                   snapDevices, snapPings, probeLog, lastOp, nCalls, mu, pc,
                   probe, traffic, discovery, twinPings>>

\* one iteration of the loop over interfaces, in the order Go happens to
\* walk the map: iface.SpeedRx and iface.SpeedTx are read through the pointer
AddInterfaceSpeed ==
    /\ live.phase = "summing"
    /\ live.pending # {}
    /\ \E k \in live.pending :
          LET iface == Interfaces[snapInterfaces[k]]
          IN  live' = [live EXCEPT !.total_rx = AddSpeed(@, iface.SpeedRx),
                                   !.total_tx = AddSpeed(@, iface.SpeedTx),
                                   !.pending  = @ \ {k}]
    /\ UNCHANGED <<now, Interfaces, Devices, PingResults, LastUpdated, snapInterfaces,
                   snapDevices, snapPings, probeLog, lastOp, nCalls, mu, pc,
                   probe, traffic, discovery, twinPings>>

\* getLiveData returns its map and conn.WriteJSON(data) encodes it: what
\* the consumer receives holds the fields the pointers lead to at that time
WriteJSON ==
    /\ live.phase = "summing"
    /\ live.pending = {}
    /\ live' = [phase          |-> "sent",
                timestamp      |-> now,
                interfaces     |-> Deref(snapInterfaces, Interfaces),
                devices        |-> snapDevices,
                pings          |-> Deref(snapPings, PingResults),
                active_devices |-> live.active_devices,
                total_devices  |-> live.total_devices,
                total_rx       |-> live.total_rx,
                total_tx       |-> live.total_tx]
    /\ UNCHANGED <<now, Interfaces, Devices, PingResults, LastUpdated, snapInterfaces,
                   snapDevices, snapPings, probeLog, lastOp, nCalls, mu, pc,
                   probe, traffic, discovery, twinPings>>

\* for range ticker.C: the handler waits for its next tick
LiveTick ==
    /\ live.phase = "sent"
    /\ live' = NoLiveData
    /\ UNCHANGED <<now, Interfaces, Devices, PingResults, LastUpdated, snapInterfaces,
                   snapDevices, snapPings, probeLog, lastOp, nCalls, mu, pc,
                   probe, traffic, discovery, twinPings>>

\* the collectors' updates, each run as one step under the lock
LiveNext ==
    \/ \E name \in Names, r \in IOSamples :
          /\ UpdateInterface(name, r[1], r[2], r[3], r[4])
          /\ UNCHANGED <<mu, pc, probe, traffic, discovery, twinPings, live>>
    \/ \E r \in DeviceReports :
          /\ UpdateDevice(r[1], r[2], r[3])
          /\ UNCHANGED <<mu, pc, probe, traffic, discovery, twinPings, live>>
    \/ Tick(MaxTime)
    \/ LiveGetInterfaces
    \/ LiveGetDevices
    \/ LiveGetPings
    \/ CountDevices
    \/ AddInterfaceSpeed
    \/ WriteJSON
    \/ LiveTick

SpecLive == StoreInit /\ [][LiveNext]_vars

(***************************************************************************)
(* The store methods as the goroutines run them: each takes Store.mu,      *)
(* runs its body and releases the lock when it returns (defer).  The three *)
(* collectors call the updates, the API requests call the snapshot reads.  *)
(* A goroutine is "out" of the store, "in" a method with the lock held, or *)
(* at "ret", its body done and the deferred unlock still to run.           *)
(***************************************************************************)
\* the exclusive lock granted whoever holds the shared one
LockFreeOfWriter(m) == m.writer = ""

\* s.mu.Lock() returns: no writer and no reader holds the lock
LockFree(m) == m.writer = "" /\ m.readers = {}

\* s.mu.RLock() returns: no writer holds the lock
RLockFree(m) == m.writer = ""

Lock(p) ==
    /\ nCalls < MaxCalls
    /\ pc[p] = "out"
    /\ LockFree(mu)
    /\ mu' = [mu EXCEPT !.writer = p]
    /\ pc' = [pc EXCEPT ![p] = "in"]
    /\ UNCHANGED <<now, Interfaces, Devices, PingResults, LastUpdated, snapInterfaces,
                   snapDevices, snapPings, probeLog, lastOp, nCalls, probe,
                   traffic, discovery, twinPings, live>>

\* defer s.mu.Unlock()
Unlock(p) ==
    /\ pc[p] = "ret"
    /\ mu' = [mu EXCEPT !.writer = ""]
    /\ pc' = [pc EXCEPT ![p] = "out"]
    /\ UNCHANGED <<now, Interfaces, Devices, PingResults, LastUpdated, snapInterfaces,
                   snapDevices, snapPings, probeLog, lastOp, nCalls, probe,
                   traffic, discovery, twinPings, live>>

RLock(r) ==
    /\ pc[r] = "out"
    /\ RLockFree(mu)
    /\ mu' = [mu EXCEPT !.readers = @ \cup {r}]
    /\ pc' = [pc EXCEPT ![r] = "in"]
    /\ UNCHANGED <<now, Interfaces, Devices, PingResults, LastUpdated, snapInterfaces,
                   snapDevices, snapPings, probeLog, lastOp, nCalls, probe,
                   traffic, discovery, twinPings, live>>

\* defer s.mu.RUnlock()
RUnlock(r) ==
    /\ pc[r] = "ret"
    /\ mu' = [mu EXCEPT !.readers = @ \ {r}]
    /\ pc' = [pc EXCEPT ![r] = "out"]
    /\ UNCHANGED <<now, Interfaces, Devices, PingResults, LastUpdated, snapInterfaces,
                   snapDevices, snapPings, probeLog, lastOp, nCalls, probe,
                   traffic, discovery, twinPings, live>>

\* the goroutine p runs the body of the method it is in
Returns(p) ==
    /\ pc[p] = "in"
    /\ pc' = [pc EXCEPT ![p] = "ret"]
    /\ UNCHANGED <<mu, probe, traffic, discovery, twinPings, live>>

LockNext ==
    \/ \E p \in Writers : Lock(p)
    \/ \E p \in Writers : Unlock(p)
    \/ \E r \in Readers : RLock(r)
    \/ \E r \in Readers : RUnlock(r)
    \/ \E r \in TrafficReports :
          UpdateInterface(r[1], r[2], r[3], r[4], r[5]) /\ Returns("traffic")
    \/ \E r \in DeviceReports :
          UpdateDevice(r[1], r[2], r[3]) /\ Returns("device")
    \/ \E r \in PingReports :
          StorePingData(r[1], r[2], r[3], r[4]) /\ Returns("ping")
    \/ \E r \in Readers : GetInterfaces /\ Returns(r)
    \/ \E r \in Readers : GetDevices /\ Returns(r)
    \/ \E r \in Readers : GetPings /\ Returns(r)
    \/ Tick(HistoryHorizon)

SpecLock == StoreInit /\ [][LockNext]_vars

(***************************************************************************)
(* The same goroutines with the work they do outside the store and with    *)
(* the queueing of sync.RWMutex.  A collector is "out" between two ticks,  *)
(* at "io" while it probes a target, runs arp, resolves a name or queries  *)
(* the OS counters, and then calls an update: it is at "wait" queued for   *)
(* the lock, at "pend" once it has announced itself as the next writer and *)
(* waits for the readers inside to leave, "in" the body and at "ret"       *)
(* before the deferred unlock.  A reader that calls RLock while a writer   *)
(* is announced or inside is at "wait" until that writer unlocks.          *)
(***************************************************************************)
\* the writer p holds the mutex that orders the writers (rw.w), which Lock
\* takes first and Unlock releases last
HoldsW(p) == pc[p] \in {"pend", "in", "ret"}

WriterPending == \E w \in Writers : HoldsW(w)

\* the goroutine p is in a call of a store method
InCall(p) == pc[p] \in {"wait", "pend", "in", "ret"}

\* the updates made and those called and not made yet
StartedCalls == nCalls + Cardinality({w \in Writers : pc[w] \in {"wait", "pend", "in"}})

\* a collector that keeps the store locked while it works outside the store
BeginIOHoldingLock(p) ==
    /\ pc[p] = "out"
    /\ LockFree(mu)
    /\ mu' = [mu EXCEPT !.writer = p]
    /\ pc' = [pc EXCEPT ![p] = "io"]
    /\ UNCHANGED <<now, Interfaces, Devices, PingResults, LastUpdated, snapInterfaces,
                   snapDevices, snapPings, probeLog, lastOp, nCalls, probe,
                   traffic, discovery, twinPings, live>>

\* the tick fires and the collector starts the work that yields its report:
\* pingHost(target), net.IOCounters(true), exec arp -a, pingSweep,
\* net.LookupAddr; no store method has been called yet
BeginIO(p) ==
    /\ pc[p] = "out"
    /\ pc' = [pc EXCEPT ![p] = "io"]
    /\ UNCHANGED <<now, Interfaces, Devices, PingResults, LastUpdated, snapInterfaces,
                   snapDevices, snapPings, probeLog, lastOp, nCalls, mu, probe,
                   traffic, discovery, twinPings, live>>

\* the work returns and the collector calls the update, whose first
\* statement is s.mu.Lock()
LockCall(p) ==
    /\ StartedCalls < MaxCalls
    /\ pc[p] = "io"
    /\ pc' = [pc EXCEPT ![p] = "wait"]
    /\ UNCHANGED <<now, Interfaces, Devices, PingResults, LastUpdated, snapInterfaces,
                   snapDevices, snapPings, probeLog, lastOp, nCalls, mu, probe,
                   traffic, discovery, twinPings, live>>

\* Lock: rw.w.Lock() returns and the writer announces itself to the readers
LockAnnounce(p) ==
    /\ pc[p] = "wait"
    /\ ~WriterPending
    /\ pc' = [pc EXCEPT ![p] = "pend"]
    /\ UNCHANGED <<now, Interfaces, Devices, PingResults, LastUpdated, snapInterfaces,
                   snapDevices, snapPings, probeLog, lastOp, nCalls, mu, probe,
                   traffic, discovery, twinPings, live>>

\* Lock returns: the readers that were inside have left
LockAcquire(p) ==
    /\ pc[p] = "pend"
    /\ mu.readers = {}
    /\ mu' = [mu EXCEPT !.writer = p]
    /\ pc' = [pc EXCEPT ![p] = "in"]
    /\ UNCHANGED <<now, Interfaces, Devices, PingResults, LastUpdated, snapInterfaces,
                   snapDevices, snapPings, probeLog, lastOp, nCalls, probe,
                   traffic, discovery, twinPings, live>>

\* an unlock that leaves the blocked readers asleep
UnlockWithoutWaking(p) ==
    /\ pc[p] = "ret"
    /\ mu' = [mu EXCEPT !.writer = ""]
    /\ pc' = [pc EXCEPT ![p] = "out"]
    /\ UNCHANGED <<now, Interfaces, Devices, PingResults, LastUpdated, snapInterfaces,
                   snapDevices, snapPings, probeLog, lastOp, nCalls, probe,
                   traffic, discovery, twinPings, live>>

\* defer s.mu.Unlock(): the readers blocked in RLock are let in, then rw.w
\* is released
UnlockWaking(p) ==
    /\ pc[p] = "ret"
    /\ mu' = [writer |-> "", readers |-> {r \in Readers : pc[r] = "wait"}]
    /\ pc' = [q \in DOMAIN pc |->
                IF q = p THEN "out"
                ELSE IF q \in Readers /\ pc[q] = "wait" THEN "in"
                ELSE pc[q]]
    /\ UNCHANGED <<now, Interfaces, Devices, PingResults, LastUpdated, snapInterfaces,
                   snapDevices, snapPings, probeLog, lastOp, nCalls, probe,
                   traffic, discovery, twinPings, live>>

\* a request calls a snapshot read, whose first statement is s.mu.RLock():
\* it returns at once unless a writer is announced or inside
RLockCall(r) ==
    /\ pc[r] = "out"
    /\ IF WriterPending
       THEN /\ pc' = [pc EXCEPT ![r] = "wait"]
            /\ mu' = mu
       ELSE /\ pc' = [pc EXCEPT ![r] = "in"]
            /\ mu' = [mu EXCEPT !.readers = @ \cup {r}]
    /\ UNCHANGED <<now, Interfaces, Devices, PingResults, LastUpdated, snapInterfaces,
                   snapDevices, snapPings, probeLog, lastOp, nCalls, probe,
                   traffic, discovery, twinPings, live>>

\* what the work outside the store yields: the arguments of the update.  The
\* steps of the lock are the same whatever is stored, so each collector
\* brings the same report every time, and the clock stays at its first
\* instant.
IOReport ==
    [traffic |-> <<"eth0", 1000, 500, 10, 5>>,
     device |-> <<"192.168.1.10", "aa:bb:cc:dd:ee:01", "">>,
     ping |-> <<"8.8.8.8", 1010, TRUE, "ICMP">>]

\* the body of the update the collector p is in
UpdateBody(p) ==
    \/ /\ p = "traffic"
       /\ \E r \in {IOReport[p]} :
             UpdateInterface(r[1], r[2], r[3], r[4], r[5]) /\ Returns(p)
    \/ /\ p = "device"
       /\ \E r \in {IOReport[p]} : UpdateDevice(r[1], r[2], r[3]) /\ Returns(p)
    \/ /\ p = "ping"
       /\ \E r \in {IOReport[p]} : StorePingData(r[1], r[2], r[3], r[4]) /\ Returns(p)

\* the body of the snapshot read the request r is in
SnapshotBody(r) ==
    \/ GetInterfaces /\ Returns(r)
    \/ GetDevices /\ Returns(r)
    \/ GetPings /\ Returns(r)

\* the steps of the calls that are under way
CallStep ==
    \/ \E p \in Writers : LockAnnounce(p)
    \/ \E p \in Writers : LockAcquire(p)
    \/ \E p \in Writers : UpdateBody(p)
    \/ \E p \in Writers : UnlockWaking(p)
    \/ \E r \in Readers : SnapshotBody(r)
    \/ \E r \in Readers : RUnlock(r)

SchedNext ==
    \/ \E p \in Writers : BeginIO(p)
    \/ \E p \in Writers : LockCall(p)
    \/ \E r \in Readers : RLockCall(r)
    \/ CallStep

SpecSched == StoreInit /\ [][SchedNext]_vars

\* The Go scheduler runs every goroutine that can run, so a step that stays
\* possible is taken; the writers queue on a sync.Mutex, which hands the lock
\* to a waiter that has been passed over (starvation mode), so a writer that
\* can take it again and again does take it.  Nothing makes a tick fire, a
\* request arrive or the work outside the store return.
SchedFairness ==
    /\ \A p \in Writers :
          /\ SF_vars(LockAnnounce(p))
          /\ WF_vars(LockAcquire(p))
          /\ WF_vars(UpdateBody(p))
          /\ WF_vars(UnlockWaking(p))
    /\ \A r \in Readers :
          /\ WF_vars(SnapshotBody(r))
          /\ WF_vars(RUnlock(r))

SpecSchedFair == SpecSched /\ SchedFairness

(***************************************************************************)
(* Operators used to state the properties.                                 *)
(***************************************************************************)
\* the sum of the integers s[lo..hi]
RECURSIVE SumRange(_, _, _)
SumRange(s, lo, hi) ==
    IF lo > hi THEN 0
    ELSE IF lo = hi THEN s[lo]
    ELSE SumRange(s, lo, (lo + hi) \div 2) + SumRange(s, (lo + hi) \div 2 + 1, hi)

SeqSum(s) == SumRange(s, 1, Len(s))

Min(a, b) == IF a <= b THEN a ELSE b

\* the last n elements of s
LastN(s, n) == SubSeq(s, Len(s) - Min(n, Len(s)) + 1, Len(s))

IsSuccess(p) == p.Success

LatenciesOf(history) == [i \in 1..Len(history) |-> history[i].Latency]

RttsOf(log) == [i \in 1..Len(log) |-> log[i].rtt]

AllSuccessful(log) == \A i \in 1..Len(log) : log[i].success

\* the step is a call of the store update named op
IsCall(op) == nCalls' = nCalls + 1 /\ lastOp'.op = op

\* the point a StorePingData step appends
ProbePoint == [Timestamp |-> now, Latency |-> lastOp'.rtt, Success |-> lastOp'.success]

(***************************************************************************)
(* C3: for every sequence of StorePingData calls on one host the stored    *)
(* History never holds more than 100 points, and a point appended to a     *)
(* full history evicts the oldest point while the others keep their order. *)
(***************************************************************************)
C3_PingHistoryBoundedFifo ==
    /\ [](\A h \in DOMAIN PingResults : Len(PingResults[h].History) <= MaxHistoryPoints)
    /\ [][IsCall("StorePingData") =>
            LET h == lastOp'.key
            IN  (h \in DOMAIN PingResults
                 /\ Len(PingResults[h].History) = MaxHistoryPoints)
                => PingResults'[h].History
                     = Tail(PingResults[h].History) \o <<ProbePoint>>]_vars

C3_Witness ==
    /\ lastOp.op = "StorePingData"
    /\ Len(probeLog[lastOp.key]) > MaxHistoryPoints + 1
    /\ Len(PingResults[lastOp.key].History) = MaxHistoryPoints

(***************************************************************************)
(* C4: in every reachable state each host of the store has                 *)
(* PacketLoss = 100 * FailedPings / TotalPings.                            *)
(***************************************************************************)
C4_PacketLossFromCounts ==
    \A h \in DOMAIN PingResults :
        /\ PingResults[h].TotalPings > 0
        /\ PingResults[h].PacketLoss.den > 0
        /\ RatEq(PingResults[h].PacketLoss,
                 [num |-> 100 * PingResults[h].FailedPings,
                  den |-> PingResults[h].TotalPings])

C4_Witness ==
    \E h \in DOMAIN PingResults :
        /\ PingResults[h].TotalPings >= 3
        /\ PingResults[h].FailedPings >= 1
        /\ PingResults[h].FailedPings < PingResults[h].TotalPings
        /\ lastOp.op = "StorePingData"
        /\ lastOp.key = h

(***************************************************************************)
(* C5: after any sequence of StorePingData calls on one host, TotalPings   *)
(* is the number of samples recorded for the host and FailedPings the      *)
(* number of those with success = false.                                   *)
(***************************************************************************)
C5_CountsMatchSamples ==
    /\ DOMAIN PingResults = DOMAIN probeLog
    /\ \A h \in DOMAIN PingResults :
          /\ PingResults[h].TotalPings = Len(probeLog[h])
          /\ PingResults[h].FailedPings
               = Cardinality({i \in 1..Len(probeLog[h]) : ~probeLog[h][i].success})

\* one success followed by one failure: total 2, failed 1, loss 50
C5_Witness ==
    \E h \in DOMAIN PingResults :
        /\ Len(probeLog[h]) = 2
        /\ probeLog[h][1].success
        /\ ~probeLog[h][2].success
        /\ PingResults[h].TotalPings = 2
        /\ PingResults[h].FailedPings = 1
        /\ RatEq(PingResults[h].PacketLoss, [num |-> 50, den |-> 1])

(***************************************************************************)
(* C6 as stated: after only-successful samples, AvgLatency is the mean of  *)
(* the latencies retained in History (at most the 100 newest).             *)
(***************************************************************************)
C6_AvgIsMeanOfRetained ==
    \A h \in DOMAIN PingResults :
        AllSuccessful(probeLog[h])
        => PingResults[h].AvgLatency
             = GoDiv(SeqSum(LatenciesOf(PingResults[h].History)),
                     Len(PingResults[h].History))

(***************************************************************************)
(* C6 amended: after only-successful samples, AvgLatency is the mean       *)
(* (truncated to a whole Duration) of the newest sample and of the samples *)
(* that were in History when it arrived, that is of the 101 newest samples *)
(* at most.                                                                *)
(***************************************************************************)
C6_AvgIsMeanOfNewest101 ==
    \A h \in DOMAIN PingResults :
        AllSuccessful(probeLog[h])
        => LET window == LastN(RttsOf(probeLog[h]), MaxHistoryPoints + 1)
           IN  PingResults[h].AvgLatency = GoDiv(SeqSum(window), Len(window))

C6_Witness ==
    \E h \in DOMAIN PingResults :
        /\ AllSuccessful(probeLog[h])
        /\ Len(probeLog[h]) > MaxHistoryPoints + 1
        /\ lastOp.op = "StorePingData"
        /\ lastOp.key = h
        /\ PingResults[h].AvgLatency
             # GoDiv(SeqSum(LatenciesOf(PingResults[h].History)),
                     Len(PingResults[h].History))

(***************************************************************************)
(* C7: a successful sample for a known host sets AvgLatency to the mean of *)
(* the new latency and the latencies of exactly the History entries whose  *)
(* Success is true.                                                        *)
(***************************************************************************)
C7_AvgOverSuccessfulEntries ==
    [][(IsCall("StorePingData") /\ lastOp'.success /\ lastOp'.key \in DOMAIN PingResults)
       => LET h  == lastOp'.key
              ok == SelectSeq(PingResults[h].History, IsSuccess)
          IN  PingResults'[h].AvgLatency
                = GoDiv(lastOp'.rtt + SeqSum(LatenciesOf(ok)), 1 + Len(ok))]_vars

\* a successful sample has just been averaged over a history that holds a
\* failed entry with a non-zero latency
C7_Witness ==
    /\ lastOp.op = "StorePingData"
    /\ lastOp.success
    /\ lastOp.existed
    /\ LET hist == PingResults[lastOp.key].History
       IN  \E i \in 1..(Len(hist) - 1) : ~hist[i].Success /\ hist[i].Latency # 0

(***************************************************************************)
(* C8: a failed sample, whatever its latency argument, leaves LastLatency  *)
(* and AvgLatency as they were, and leaves them 0 for a host unseen so far.*)
(***************************************************************************)
C8_FailedSampleKeepsLatency ==
    [][(IsCall("StorePingData") /\ ~lastOp'.success)
       => LET h == lastOp'.key
          IN  IF h \in DOMAIN PingResults
              THEN /\ PingResults'[h].LastLatency = PingResults[h].LastLatency
                   /\ PingResults'[h].AvgLatency = PingResults[h].AvgLatency
              ELSE /\ PingResults'[h].LastLatency = 0
                   /\ PingResults'[h].AvgLatency = 0]_vars

(***************************************************************************)
(* C1: a value returned by GetInterfaces, GetDevices or GetPings is an     *)
(* independent copy: as long as the caller holds the same returned map, no *)
(* store update changes any field of the entities read through it.         *)
(***************************************************************************)
C1_SnapshotsAreIndependent ==
    [][/\ snapInterfaces' = snapInterfaces
          => Deref(snapInterfaces', Interfaces') = Deref(snapInterfaces, Interfaces)
       /\ snapPings' = snapPings
          => Deref(snapPings', PingResults') = Deref(snapPings, PingResults)
       /\ (IsCall("UpdateDevice") /\ lastOp'.key \in DOMAIN snapDevices)
          => snapDevices'[lastOp'.key] = snapDevices[lastOp'.key]]_vars

\* the point an UpdateInterface step appends
TrafficPoint ==
    [Timestamp |-> now, BytesRx |-> lastOp'.bytesRx, BytesTx |-> lastOp'.bytesTx,
     SpeedRx |-> Interfaces'[lastOp'.key].SpeedRx,
     SpeedTx |-> Interfaces'[lastOp'.key].SpeedTx]

(***************************************************************************)
(* C2: for every sequence of UpdateInterface calls on one name the stored  *)
(* History never holds more than 100 points, and a point appended to a     *)
(* full history drops the oldest point while the others keep their order.  *)
(***************************************************************************)
C2_IfaceHistoryBoundedFifo ==
    /\ [](\A n \in DOMAIN Interfaces : Len(Interfaces[n].History) <= MaxHistoryPoints)
    /\ [][IsCall("UpdateInterface") =>
            LET n == lastOp'.key
            IN  (n \in DOMAIN Interfaces
                 /\ Len(Interfaces[n].History) = MaxHistoryPoints)
                => Interfaces'[n].History
                     = Tail(Interfaces[n].History) \o <<TrafficPoint>>]_vars

C2_Witness ==
    /\ lastOp.op = "UpdateInterface"
    /\ lastOp.wasFull
    /\ Len(Interfaces[lastOp.key].History) = MaxHistoryPoints

(***************************************************************************)
(* C9: a device is reported inactive in a GetDevices snapshot if and only  *)
(* if now - lastSeen >= 5 minutes.                                         *)
(***************************************************************************)
C9_InactiveIffFiveMinutesOld ==
    lastOp.op = "GetDevices"
    => \A ip \in DOMAIN snapDevices :
          (~snapDevices[ip].IsActive)
          <=> (lastOp.at - snapDevices[ip].LastSeen >= FiveMinutes)

(***************************************************************************)
(* C10: for every sequence of UpdateDevice calls on one IP, once MAC       *)
(* (respectively Hostname) is non-empty it never changes again.            *)
(***************************************************************************)
C10_MacAndHostnameSticky ==
    [][\A ip \in DOMAIN Devices :
          /\ ip \in DOMAIN Devices'
          /\ Devices[ip].MAC # "" => Devices'[ip].MAC = Devices[ip].MAC
          /\ Devices[ip].Hostname # "" => Devices'[ip].Hostname = Devices[ip].Hostname]_vars

\* an update has just offered a different non-empty MAC and a different
\* non-empty hostname to a device that had both
C10_Witness ==
    /\ lastOp.op = "UpdateDevice"
    /\ lastOp.existed
    /\ lastOp.mac # ""
    /\ lastOp.hostname # ""
    /\ Devices[lastOp.key].MAC \notin {"", lastOp.mac}
    /\ Devices[lastOp.key].Hostname \notin {"", lastOp.hostname}

\* the speed is the rational num / den, with no wrap-around
SpeedIs(speed, num, den) == speed.wrap = 0 /\ speed.diff * den = num * speed.secs

\* the UpdateInterface step finds a prior sample taken an elapsed time > 0 ago
FindsPriorSample ==
    /\ IsCall("UpdateInterface")
    /\ lastOp'.key \in DOMAIN Interfaces
    /\ now - Interfaces[lastOp'.key].LastCheck > 0

(***************************************************************************)
(* C11: for an existing interface updated after elapsed time t > 0,        *)
(* SpeedRx = (newBytesRx - oldBytesRx) / t and                             *)
(* SpeedTx = (newBytesTx - oldBytesTx) / t.                                *)
(***************************************************************************)
C11_SpeedIsDeltaOverElapsed ==
    [][FindsPriorSample
       => LET n == lastOp'.key
              t == now - Interfaces[n].LastCheck
          IN  /\ SpeedIs(Interfaces'[n].SpeedRx, lastOp'.bytesRx - Interfaces[n].BytesRx, t)
              /\ SpeedIs(Interfaces'[n].SpeedTx, lastOp'.bytesTx - Interfaces[n].BytesTx, t)]_vars

(***************************************************************************)
(* C12: when an update carries a byte counter lower than the stored one    *)
(* and the elapsed time is > 0, the speed is the negative value            *)
(* (newBytes - oldBytes) / elapsed, not wrapped modulo 2^64.               *)
(***************************************************************************)
C12_CounterResetGivesNegativeSpeed ==
    [][(FindsPriorSample /\ lastOp'.bytesRx < Interfaces[lastOp'.key].BytesRx)
       => LET n == lastOp'.key
          IN  /\ Interfaces'[n].SpeedRx.wrap = 0
              /\ Interfaces'[n].SpeedRx.diff < 0
              /\ Interfaces'[n].SpeedRx.diff = lastOp'.bytesRx - Interfaces[n].BytesRx
              /\ Interfaces'[n].SpeedRx.secs = now - Interfaces[n].LastCheck]_vars

(***************************************************************************)
(* C13 as stated: after any update that does not find a prior sample with  *)
(* elapsed time > 0, SpeedRx and SpeedTx are 0.                            *)
(***************************************************************************)
C13_SpeedZeroWithoutElapsedTime ==
    [][(IsCall("UpdateInterface") /\ ~FindsPriorSample)
       => /\ SpeedIs(Interfaces'[lastOp'.key].SpeedRx, 0, 1)
          /\ SpeedIs(Interfaces'[lastOp'.key].SpeedTx, 0, 1)]_vars

(***************************************************************************)
(* C13 amended: an update that does not find a prior sample with elapsed   *)
(* time > 0 does not recompute the speed: on a first sighting SpeedRx and  *)
(* SpeedTx are 0, on an existing interface they keep the values they had.  *)
(***************************************************************************)
C13_SpeedKeptWithoutElapsedTime ==
    [][(IsCall("UpdateInterface") /\ ~FindsPriorSample)
       => LET n == lastOp'.key
          IN  IF n \in DOMAIN Interfaces
              THEN /\ Interfaces'[n].SpeedRx = Interfaces[n].SpeedRx
                   /\ Interfaces'[n].SpeedTx = Interfaces[n].SpeedTx
              ELSE /\ SpeedIs(Interfaces'[n].SpeedRx, 0, 1)
                   /\ SpeedIs(Interfaces'[n].SpeedTx, 0, 1)]_vars

\* an existing interface with a non-zero speed has just been updated with
\* no time elapsed
C13_Witness ==
    /\ lastOp.op = "UpdateInterface"
    /\ lastOp.existed
    /\ lastOp.elapsed = 0
    /\ ~SpeedIs(Interfaces[lastOp.key].SpeedRx, 0, 1)

(***************************************************************************)
(* C14: the first UpdateInterface call for an unseen name creates the      *)
(* record with SpeedRx = SpeedTx = 0, the given counters and an empty      *)
(* History, and every UpdateInterface call sets LastUpdated to the time of *)
(* the call.                                                               *)
(***************************************************************************)
C14_FirstSightingAndTimestamp ==
    [][IsCall("UpdateInterface")
       => /\ LastUpdated' = now
          /\ lastOp'.key \notin DOMAIN Interfaces
             => LET created == Interfaces'[lastOp'.key]
                IN  /\ SpeedIs(created.SpeedRx, 0, 1)
                    /\ SpeedIs(created.SpeedTx, 0, 1)
                    /\ created.BytesRx = lastOp'.bytesRx
                    /\ created.BytesTx = lastOp'.bytesTx
                    /\ created.History = <<>>]_vars

\* an interface has just been created at a time later than NewStore
C14_Witness ==
    /\ lastOp.op = "UpdateInterface"
    /\ ~lastOp.existed
    /\ now > 0
    /\ LastUpdated = now
    /\ Interfaces[lastOp.key].History = <<>>

(***************************************************************************)
(* C15: the first StorePingData call for an unseen host yields             *)
(* TotalPings = 1 and a History of exactly one point; on success           *)
(* FailedPings = 0, PacketLoss = 0 and AvgLatency = LastLatency = the      *)
(* sample latency; on failure FailedPings = 1, PacketLoss = 100 and        *)
(* AvgLatency = 0.                                                         *)
(***************************************************************************)
C15_FirstSampleSeedsStats ==
    [][(IsCall("StorePingData") /\ lastOp'.key \notin DOMAIN PingResults)
       => LET created == PingResults'[lastOp'.key]
          IN  /\ created.TotalPings = 1
              /\ created.History = <<ProbePoint>>
              /\ IF lastOp'.success
                 THEN /\ created.FailedPings = 0
                      /\ RatEq(created.PacketLoss, [num |-> 0, den |-> 1])
                      /\ created.AvgLatency = lastOp'.rtt
                      /\ created.LastLatency = lastOp'.rtt
                 ELSE /\ created.FailedPings = 1
                      /\ RatEq(created.PacketLoss, [num |-> 100, den |-> 1])
                      /\ created.AvgLatency = 0]_vars

\* a first sample with a non-zero latency has just succeeded
C15_Witness ==
    /\ lastOp.op = "StorePingData"
    /\ ~lastOp.existed
    /\ lastOp.success
    /\ lastOp.rtt # 0
    /\ PingResults[lastOp.key].TotalPings = 1

(***************************************************************************)
(* C16: GetDevices never mutates stored state: every stored device keeps   *)
(* IsActive = true and its LastSeen whatever number of GetDevices calls    *)
(* are made and whenever; the age-based false value is in the returned     *)
(* copy only.                                                              *)
(***************************************************************************)
C16_GetDevicesLeavesStoreAlone ==
    /\ [](\A ip \in DOMAIN Devices : Devices[ip].IsActive)
    /\ [][lastOp'.op = "GetDevices" => Devices' = Devices]_vars

\* a snapshot holds a device as inactive while the stored one is active and
\* has the same LastSeen
C16_Witness ==
    /\ lastOp.op = "GetDevices"
    /\ \E ip \in DOMAIN snapDevices :
          /\ ~snapDevices[ip].IsActive
          /\ Devices[ip].IsActive
          /\ Devices[ip].LastSeen = snapDevices[ip].LastSeen
          /\ now - Devices[ip].LastSeen > FiveMinutes

\* all of a device but the flag GetDevices computes from its age
Sighting(device) ==
    [IP |-> device.IP, MAC |-> device.MAC, Hostname |-> device.Hostname,
     LastSeen |-> device.LastSeen, Vendor |-> device.Vendor]

(***************************************************************************)
(* C17: a snapshot call made after an update call has returned reflects    *)
(* the update: the returned map has the updated key with the values that   *)
(* update wrote, for interfaces, devices and ping targets.  (The IsActive  *)
(* of a returned device is the one GetDevices computes from the age.)      *)
(***************************************************************************)
C17_SnapshotReflectsUpdates ==
    [][/\ lastOp'.op = "GetInterfaces"
          => /\ DOMAIN snapInterfaces' = DOMAIN Interfaces
             /\ Deref(snapInterfaces', Interfaces') = Interfaces
             /\ lastOp.op = "UpdateInterface"
                => /\ lastOp.key \in DOMAIN snapInterfaces'
                   /\ LET seen == Deref(snapInterfaces', Interfaces')[lastOp.key]
                      IN  /\ seen.BytesRx = lastOp.bytesRx
                          /\ seen.BytesTx = lastOp.bytesTx
                          /\ seen.PacketsRx = lastOp.packetsRx
                          /\ seen.PacketsTx = lastOp.packetsTx
                          /\ seen.LastCheck = now
       /\ lastOp'.op = "GetDevices"
          => /\ DOMAIN snapDevices' = DOMAIN Devices
             /\ \A ip \in DOMAIN Devices :
                   Sighting(snapDevices'[ip]) = Sighting(Devices[ip])
             /\ lastOp.op = "UpdateDevice"
                => /\ lastOp.key \in DOMAIN snapDevices'
                   /\ LET seen == snapDevices'[lastOp.key]
                      IN  /\ seen.LastSeen = now
                          /\ seen.IsActive
                          /\ ~lastOp.existed
                             => seen.MAC = lastOp.mac /\ seen.Hostname = lastOp.hostname
       /\ lastOp'.op = "GetPings"
          => /\ DOMAIN snapPings' = DOMAIN PingResults
             /\ Deref(snapPings', PingResults') = PingResults
             /\ lastOp.op = "StorePingData"
                => /\ lastOp.key \in DOMAIN snapPings'
                   /\ LET seen == Deref(snapPings', PingResults')[lastOp.key]
                      IN  /\ seen.TotalPings = Len(probeLog[lastOp.key])
                          /\ seen.History[Len(seen.History)] =
                                [Timestamp |-> now, Latency |-> lastOp.rtt,
                                 Success |-> lastOp.success]
                          /\ seen.LastUpdated = now]_vars

\* GetPings has just returned a second target recorded after an earlier
\* GetPings
C17_Witness ==
    /\ lastOp.op = "GetPings"
    /\ nCalls = 2
    /\ Cardinality(DOMAIN snapPings) = 2
    /\ DOMAIN snapPings = DOMAIN PingResults

\* a goroutine is inside a store method: it holds the lock
Inside(p) == pc[p] # "out"

(***************************************************************************)
(* C18: with the three collectors and the readers running concurrently, at *)
(* most one store mutation is inside its critical section at any time and  *)
(* no snapshot read is inside its critical section while a mutation is;    *)
(* several snapshot reads may be inside theirs at the same time.           *)
(***************************************************************************)
C18_WritersExcludeEveryone ==
    /\ Cardinality({w \in Writers : Inside(w)}) <= 1
    /\ (\E w \in Writers : Inside(w)) => \A r \in Readers : ~Inside(r)

\* two snapshot reads are inside their critical sections together, after a
\* mutation was made
C18_Witness ==
    /\ nCalls > 0
    /\ \E r1, r2 \in Readers : r1 # r2 /\ Inside(r1) /\ Inside(r2)

\* the map m without its keys other than k
Only(m, k) == [x \in (DOMAIN m) \cap {k} |-> m[x]]

\* the map after is the map before but for the entry of key k
OnlyEntryChanged(before, after, k) ==
    /\ DOMAIN after = (DOMAIN before) \cup {k}
    /\ \A x \in (DOMAIN before) \ {k} : after[x] = before[x]

(***************************************************************************)
(* C19: an update to one key leaves every other entry of the three maps    *)
(* unchanged, and the record it leaves for its key is the one the same     *)
(* update leaves on a store that holds that key alone: each record is the  *)
(* result of applying that key's updates only, in the order they were      *)
(* made.                                                                   *)
(***************************************************************************)
C19_UpdateTouchesOnlyItsKey ==
    [][/\ IsCall("UpdateInterface")
          => /\ Devices' = Devices
             /\ PingResults' = PingResults
             /\ OnlyEntryChanged(Interfaces, Interfaces', lastOp'.key)
             /\ Interfaces'[lastOp'.key] =
                   InterfacesAfter(Only(Interfaces, lastOp'.key), lastOp'.key,
                                   lastOp'.bytesRx, lastOp'.bytesTx, lastOp'.packetsRx,
                                   lastOp'.packetsTx, now)[lastOp'.key]
       /\ IsCall("UpdateDevice")
          => /\ Interfaces' = Interfaces
             /\ PingResults' = PingResults
             /\ OnlyEntryChanged(Devices, Devices', lastOp'.key)
             /\ Devices'[lastOp'.key] =
                   DevicesAfter(Only(Devices, lastOp'.key), lastOp'.key,
                                lastOp'.mac, lastOp'.hostname, now)[lastOp'.key]
       /\ IsCall("StorePingData")
          => /\ Interfaces' = Interfaces
             /\ Devices' = Devices
             /\ OnlyEntryChanged(PingResults, PingResults', lastOp'.key)
             /\ PingResults'[lastOp'.key] =
                   PingResultsAfter(Only(PingResults, lastOp'.key), lastOp'.key,
                                    lastOp'.rtt, lastOp'.success, now)[lastOp'.key]]_vars

\* a device has just been added to a map that held another device
C19_Witness ==
    /\ lastOp.op = "UpdateDevice"
    /\ ~lastOp.existed
    /\ Cardinality(DOMAIN Devices) = 2

\* the order in which the ports are tried
PortOrder == <<"80", "443", "53", "22">>

\* the first port of PortOrder that accepts the connection
FirstOpenPort(tcp) ==
    PortOrder[CHOOSE i \in 1..Len(PortOrder) :
                 /\ tcp[PortOrder[i]].ok
                 /\ \A j \in 1..(i - 1) : ~tcp[PortOrder[j]].ok]

(***************************************************************************)
(* C20: a probe result is labelled ICMP only when the ICMP echo succeeded; *)
(* when ICMP fails and at least one TCP port connects, the sample is a     *)
(* success labelled "TCP:<port>", <port> being the first port that         *)
(* connects in the order 80, 443, 53, 22, and its latency is that          *)
(* connect's dial time.                                                    *)
(***************************************************************************)
C20_ProbeLabel ==
    probe.seen
    => /\ probe.result.Method = "ICMP" => probe.icmp.ok
       /\ (~probe.icmp.ok /\ \E port \in DOMAIN probe.tcp : probe.tcp[port].ok)
          => /\ probe.result.Success
             /\ probe.result.Method = "TCP:" \o FirstOpenPort(probe.tcp)
             /\ probe.result.RTT = DialTime[FirstOpenPort(probe.tcp)]
       /\ lastOp.op = "StorePingData"
          => /\ lastOp.key = probe.result.Host
             /\ lastOp.rtt = probe.result.RTT
             /\ lastOp.success = probe.result.Success

\* ICMP and port 80 failed, ports 443 and 53 accept: the sample recorded is
\* a success labelled TCP:443
C20_Witness ==
    /\ probe.seen
    /\ ~probe.icmp.ok
    /\ ~probe.tcp["80"].ok
    /\ probe.tcp["443"].ok
    /\ probe.tcp["53"].ok
    /\ probe.result.Method = "TCP:443"
    /\ lastOp.op = "StorePingData"
    /\ lastOp.success
    /\ lastOp.rtt = 44300

\* the ICMP attempt and the four TCP connects of the probe p all failed
AllProbesFailed(p) ==
    /\ ~p.icmp.ok
    /\ \A port \in DOMAIN p.tcp : ~p.tcp[port].ok

\* the counters of a host in the map pings, 0 for a host that has no entry
TotalPingsOf(pings, host) ==
    IF host \in DOMAIN pings THEN pings[host].TotalPings ELSE 0

FailedPingsOf(pings, host) ==
    IF host \in DOMAIN pings THEN pings[host].FailedPings ELSE 0

\* the step is one iteration of the loop of collectPingData
ProbeIteration == probe.phase = "pass" /\ probe' # probe

(***************************************************************************)
(* C21: when the ICMP attempt and all four TCP connects fail for a target, *)
(* the sample recorded for it has success = false and latency 0, and the   *)
(* call adds one to TotalPings and one to FailedPings of that target.      *)
(***************************************************************************)
C21_FailedProbeRecorded ==
    [][(ProbeIteration /\ AllProbesFailed(probe'))
       => LET target == probe.targets[probe.next]
          IN  /\ target \in DOMAIN PingResults'
              /\ LET history == PingResults'[target].History
                     sample  == history[Len(history)]
                 IN  /\ sample.Success = FALSE
                     /\ sample.Latency = 0
              /\ TotalPingsOf(PingResults', target) = TotalPingsOf(PingResults, target) + 1
              /\ FailedPingsOf(PingResults', target)
                    = FailedPingsOf(PingResults, target) + 1]_vars

\* a target failed every attempt in two passes: its entry counts two pings,
\* both failed
C21_Witness ==
    /\ probe.seen
    /\ AllProbesFailed(probe)
    /\ lastOp.op = "StorePingData"
    /\ ~lastOp.success
    /\ lastOp.rtt = 0
    /\ lastOp.existed
    /\ PingResults[lastOp.key].TotalPings = 2
    /\ PingResults[lastOp.key].FailedPings = 2

(***************************************************************************)
(* C22: in every pass each entry of the target list gives exactly one      *)
(* StorePingData call, in the order of the list, whether its probe         *)
(* succeeded or failed; after k completed passes every target has          *)
(* TotalPings = k.                                                         *)
(***************************************************************************)
C22_OneCallPerTargetPerPass ==
    /\ [](/\ nCalls = probe.passes * Len(probe.targets)
                       + (IF probe.phase = "pass" THEN probe.next - 1 ELSE 0)
          /\ probe.phase = "wait"
             => \A i \in 1..Len(probe.targets) :
                   TotalPingsOf(PingResults, probe.targets[i]) = probe.passes)
    /\ [][/\ ProbeIteration
             => /\ nCalls' = nCalls + 1
                /\ lastOp'.op = "StorePingData"
                /\ lastOp'.key = probe.targets[probe.next]
                /\ lastOp'.success = probe'.result.Success
          /\ nCalls' # nCalls => ProbeIteration]_vars

(***************************************************************************)
(* C23: the ping collector runs one full pass over all targets at once     *)
(* when Start is called, before the first tick, and then one pass for      *)
(* every tick.                                                             *)
(***************************************************************************)
C23_PassAtStartThenPerTick ==
    /\ [](/\ probe.phase = "new"  => probe.passes = 0 /\ probe.ticks = 0 /\ nCalls = 0
          /\ probe.phase = "pass" => probe.passes = probe.ticks
          /\ probe.phase = "wait" => probe.passes = probe.ticks + 1)
    /\ [][/\ (probe.phase = "new" /\ probe' # probe)
             => probe'.phase = "pass" /\ probe'.next = 1 /\ probe'.ticks = 0
          /\ probe'.ticks # probe.ticks
             => /\ probe.phase = "wait"
                /\ probe'.ticks = probe.ticks + 1
                /\ probe'.phase = "pass"
                /\ probe'.next = 1]_vars

\* the first pass is complete and no tick was received yet
C23_Witness ==
    /\ probe.phase = "wait"
    /\ probe.ticks = 0
    /\ probe.passes = 1
    /\ nCalls = Len(probe.targets)
    /\ \A i \in 1..Len(probe.targets) : probe.targets[i] \in DOMAIN PingResults

\* the step is the query of the OS counters of a tick
CounterQuery == traffic.phase = "query" /\ traffic' # traffic

(***************************************************************************)
(* C24: when the query of the OS counters fails in a traffic tick, no      *)
(* UpdateInterface call is made in that tick and the store is left         *)
(* unchanged; the collector does not stop, and the next tick runs as any   *)
(* other and updates the store if its query succeeds.                      *)
(***************************************************************************)
C24_FailedQuerySkipsTick ==
    /\ []((traffic.phase = "wait" /\ traffic.err)
          => /\ traffic.calls = <<>>
             /\ Len(traffic.outcomes) < MaxQueries => ENABLED TrafficTick)
    /\ [][/\ (CounterQuery /\ traffic'.err)
             => /\ UNCHANGED <<Interfaces, Devices, PingResults, LastUpdated, nCalls>>
                /\ traffic'.phase = "wait"
          /\ (traffic.phase = "wait" /\ traffic' # traffic)
             => traffic'.phase = "query"
          /\ (CounterQuery /\ ~traffic'.err /\ traffic'.report # <<>>)
             => traffic'.phase = "loop" /\ traffic'.pending = traffic'.report
          /\ (traffic.phase = "loop" /\ traffic' # traffic
                /\ Head(traffic.pending).Name \notin {"lo", "Loopback Pseudo-Interface 1"})
             => LET iface == Head(traffic.pending)
                IN  /\ nCalls' = nCalls + 1
                    /\ iface.Name \in DOMAIN Interfaces'
                    /\ Interfaces'[iface.Name].BytesRx = iface.BytesRecv
                    /\ Interfaces'[iface.Name].LastCheck = now]_vars

\* the first query failed, the second one succeeded and its readings are in
\* the store
C24_Witness ==
    /\ traffic.outcomes = <<"err", "ok">>
    /\ traffic.phase = "wait"
    /\ traffic.calls = <<"eth0">>
    /\ DOMAIN Interfaces = {"eth0"}
    /\ Interfaces["eth0"].LastCheck = TrafficInterval
    /\ nCalls = 1

\* the names of the loopback interfaces on Linux and on Windows
LoopbackNames == {"lo", "Loopback Pseudo-Interface 1"}

NotLoopback(name) == name \notin LoopbackNames

\* the names of the interfaces of a report, in its order
NamesOf(report) == [i \in DOMAIN report |-> report[i].Name]

C26_ArpFailureSkipsTick ==
    [][discovery'.arpErr => nCalls' = nCalls /\ Devices' = Devices]_vars

\* the first IPv4 network of the interfaces from position i on that are not
\* loopback interfaces, "" when there is none
RECURSIVE FirstNonLoopbackSubnet(_, _)
FirstNonLoopbackSubnet(ifaces, i) ==
    IF i > Len(ifaces) THEN ""
    ELSE LET v4 == {j \in 1..Len(ifaces[i].Addrs) : ifaces[i].Addrs[j].V4}
         IN  IF ~ifaces[i].Loopback /\ v4 # {}
             THEN ifaces[i].Addrs[CHOOSE j \in v4 : \A k \in v4 : j <= k].Net
             ELSE FirstNonLoopbackSubnet(ifaces, i + 1)

(***************************************************************************)
(* C27: for every ordered list of interfaces and addresses, getLocalSubnet *)
(* returns the first IPv4 subnet bound to a non-loopback interface: never  *)
(* a subnet of a loopback interface, and the empty string when no          *)
(* non-loopback IPv4 address exists.                                       *)
(***************************************************************************)
C27_SubnetIsFirstNonLoopback ==
    (discovery.phase = "subnet" /\ ~discovery.err)
    => /\ discovery.subnet = FirstNonLoopbackSubnet(discovery.ifaces, 1)
       /\ \A i \in 1..Len(discovery.ifaces) :
             discovery.ifaces[i].Loopback
             => \A j \in 1..Len(discovery.ifaces[i].Addrs) :
                   discovery.subnet # discovery.ifaces[i].Addrs[j].Net

\* the addresses of the subnet but the first (network) and the last
\* (broadcast), in ascending order
HostAddresses(host, bits) ==
    [k \in 1..(BlockSize(bits) - 2) |-> incIP(Mask(host, bits), k)]

(***************************************************************************)
(* C28: for every IPv4 subnet, of any prefix length, the sweep probes each *)
(* address of the subnet except its network address and its broadcast      *)
(* address exactly once, in ascending order, and skips no other address.   *)
(***************************************************************************)
C28_SweepProbesEveryHostAddress ==
    discovery.phase = "swept"
    => discovery.probed = HostAddresses(discovery.host, discovery.bits)

\* the elements of a sequence
Range(seq) == {seq[i] : i \in DOMAIN seq}

(***************************************************************************)
(* C29: in a discovery tick a sweep responder whose IP is already present  *)
(* from the ARP table does not replace that entry (its MAC is kept), a     *)
(* responder that is not present is added with an empty MAC, and           *)
(* UpdateDevice is called exactly once for every IP of the merged set.     *)
(***************************************************************************)
C29_MergeKeepsArpEntries ==
    /\ [](discovery.ticks > 0
          => /\ DOMAIN discovery.devices
                  = DOMAIN discovery.arp \cup Range(discovery.responders)
             /\ \A ip \in DOMAIN discovery.arp :
                   discovery.devices[ip].MAC = discovery.arp[ip].MAC
             /\ \A ip \in Range(discovery.responders) \ DOMAIN discovery.arp :
                   discovery.devices[ip].MAC = ""
             /\ discovery.phase = "wait"
                => /\ Len(discovery.calls) = Cardinality(DOMAIN discovery.devices)
                   /\ Range(discovery.calls) = DOMAIN discovery.devices)
    /\ [][nCalls' # nCalls
          => /\ nCalls' = nCalls + 1
             /\ lastOp'.op = "UpdateDevice"
             /\ lastOp'.key \in DOMAIN discovery.devices
             /\ lastOp'.key \notin Range(discovery.calls)
             /\ lastOp'.mac = discovery.devices[lastOp'.key].MAC
             /\ discovery'.calls = Append(discovery.calls, lastOp'.key)]_vars

\* the ARP table lists 192.168.1.1 and 192.168.1.30, the sweep finds
\* 192.168.1.1 and 192.168.1.10: three calls, the first address keeps its
\* MAC and 192.168.1.10 is stored without one
C29_Witness ==
    /\ discovery.phase = "wait"
    /\ discovery.responders = <<"192.168.1.1", "192.168.1.10">>
    /\ DOMAIN discovery.arp = {"192.168.1.1", "192.168.1.30"}
    /\ Len(discovery.calls) = 3
    /\ DOMAIN Devices = {"192.168.1.1", "192.168.1.10", "192.168.1.30"}
    /\ Devices["192.168.1.1"].MAC = "aa:bb:cc:dd:ee:01"
    /\ Devices["192.168.1.10"].MAC = ""

\* attempt i of the probe p succeeded
AttemptSucceeded(p, i) ==
    IF p.attempts[i] = "ICMP" THEN p.icmp.ok ELSE p.tcp[p.attempts[i]].ok

(***************************************************************************)
(* C30: for one target in one pass at most one ICMP echo is sent and at    *)
(* most four TCP connects are attempted; a TCP connect is attempted only   *)
(* after the ICMP attempt failed, the ports are tried in the order 80,     *)
(* 443, 53, 22, and no attempt follows the first success.                  *)
(***************************************************************************)
C30_AttemptSequence ==
    probe.seen
    => LET a    == probe.attempts
           icmp == {i \in DOMAIN a : a[i] = "ICMP"}
           tcp  == {i \in DOMAIN a : a[i] # "ICMP"}
       IN  /\ Cardinality(icmp) <= 1
           /\ Cardinality(tcp) <= 4
           /\ tcp # {} => 1 \in icmp /\ ~probe.icmp.ok
           /\ \A i \in tcp : i >= 2 /\ a[i] = PortOrder[i - 1]
           /\ \A i \in 1..(Len(a) - 1) : ~AttemptSucceeded(probe, i)
           /\ probe.result.Success <=> AttemptSucceeded(probe, Len(a))
           /\ probe.result.Success
              => probe.result.Method
                   = (IF a[Len(a)] = "ICMP" THEN "ICMP" ELSE "TCP:" \o a[Len(a)])

\* the echo and port 80 failed and port 443 accepted: three attempts, the
\* ports 53 and 22 were not dialled although 53 would have accepted
C30_Witness ==
    /\ probe.seen
    /\ probe.attempts = <<"ICMP", "80", "443">>
    /\ probe.tcp["53"].ok
    /\ probe.result.Method = "TCP:443"

\* the first sample of the log succeeded and no later one did
OnlyFirstSucceeded(log) ==
    /\ log[1].success
    /\ \A i \in 2..Len(log) : ~log[i].success

(***************************************************************************)
(* C34: run side by side on the same samples of a host, UpdatePing and     *)
(* StorePingData give the same TotalPings, FailedPings, PacketLoss,        *)
(* LastLatency and History in every state; AvgLatency differs only from a  *)
(* successful first sample (0 for UpdatePing, the sample's latency for     *)
(* StorePingData) until the next successful sample, after which the two    *)
(* are equal again.                                                        *)
(***************************************************************************)
C34_UpdatePingAgreesButFirstAverage ==
    /\ DOMAIN twinPings = DOMAIN PingResults
    /\ \A h \in DOMAIN PingResults :
          LET stored == PingResults[h]
              twin   == twinPings[h]
          IN  /\ twin.TotalPings = stored.TotalPings
              /\ twin.FailedPings = stored.FailedPings
              /\ RatEq(twin.PacketLoss, stored.PacketLoss)
              /\ twin.LastLatency = stored.LastLatency
              /\ twin.History = stored.History
              /\ IF OnlyFirstSucceeded(probeLog[h])
                 THEN /\ twin.AvgLatency = 0
                      /\ stored.AvgLatency = probeLog[h][1].rtt
                 ELSE twin.AvgLatency = stored.AvgLatency

\* a success, a failure, a success: the averages, which differed after the
\* first two samples, are the same again
C34_Witness ==
    \E h \in DOMAIN PingResults :
        /\ Len(probeLog[h]) = 3
        /\ probeLog[h][1].success
        /\ probeLog[h][1].rtt = 1010
        /\ ~probeLog[h][2].success
        /\ probeLog[h][3].success
        /\ twinPings[h].AvgLatency = PingResults[h].AvgLatency
        /\ PingResults[h].AvgLatency # 0

(***************************************************************************)
(* C35: in every reachable state each host of the store has                *)
(* len(History) = min(TotalPings, 100): every recorded sample, successful  *)
(* or failed, adds exactly one history point, the first sample of a host   *)
(* included.                                                               *)
(***************************************************************************)
C35_HistoryLengthFromTotal ==
    \A h \in DOMAIN PingResults :
        Len(PingResults[h].History) = Min(PingResults[h].TotalPings, MaxHistoryPoints)

\* a host has one failed sample only, and another one has more samples
\* than the history holds
C35_Witness ==
    /\ \E h \in DOMAIN PingResults :
          /\ PingResults[h].TotalPings = 1
          /\ PingResults[h].FailedPings = 1
          /\ Len(PingResults[h].History) = 1
    /\ \E h \in DOMAIN PingResults :
          /\ PingResults[h].TotalPings > MaxHistoryPoints
          /\ Len(PingResults[h].History) = MaxHistoryPoints

(***************************************************************************)
(* C36: in every reachable state each host of the store has                *)
(* TotalPings >= 1 and 0 <= FailedPings <= TotalPings, hence               *)
(* 0 <= PacketLoss <= 100, whatever latencies and success flags are        *)
(* recorded.                                                               *)
(***************************************************************************)
C36_LossWithinBounds ==
    \A h \in DOMAIN PingResults :
        /\ PingResults[h].TotalPings >= 1
        /\ 0 <= PingResults[h].FailedPings
        /\ PingResults[h].FailedPings <= PingResults[h].TotalPings
        /\ PingResults[h].PacketLoss.den > 0
        /\ 0 <= PingResults[h].PacketLoss.num
        /\ PingResults[h].PacketLoss.num <= 100 * PingResults[h].PacketLoss.den

\* a host whose samples all failed: loss is 100
C36_Witness ==
    \E h \in DOMAIN PingResults :
        /\ PingResults[h].TotalPings = 2
        /\ PingResults[h].FailedPings = 2
        /\ RatEq(PingResults[h].PacketLoss, [num |-> 100, den |-> 1])
        /\ lastOp.op = "StorePingData"
        /\ lastOp.key = h
        /\ lastOp.existed

(***************************************************************************)
(* C37: UpdateDevice leaves the store's LastUpdated as it was, whereas     *)
(* UpdateInterface and StorePingData set it to the time of the call; so    *)
(* LastUpdated can be older than the LastSeen of a stored device.          *)
(***************************************************************************)
C37_DeviceUpdateKeepsLastUpdated ==
    [][/\ IsCall("UpdateDevice") => LastUpdated' = LastUpdated
       /\ (IsCall("UpdateInterface") \/ IsCall("StorePingData")) => LastUpdated' = now]_vars

\* a device was seen after the last update of an interface or of a host
C37_Witness ==
    /\ lastOp.op = "UpdateDevice"
    /\ \E ip \in DOMAIN Devices : Devices[ip].LastSeen > LastUpdated

\* two speeds are the same number
SameSpeed(a, b) ==
    /\ a.wrap * b.secs = b.wrap * a.secs
    /\ a.diff * b.secs = b.diff * a.secs

\* the sum of the receive speeds (rx) or of the send speeds of the
\* interfaces of a result whose names are in keys
RECURSIVE SumOfSpeeds(_, _, _)
SumOfSpeeds(interfaces, keys, rx) ==
    IF keys = {}
    THEN ZeroSpeed
    ELSE LET k == CHOOSE x \in keys : TRUE
         IN  AddSpeed(IF rx THEN interfaces[k].SpeedRx ELSE interfaces[k].SpeedTx,
                      SumOfSpeeds(interfaces, keys \ {k}, rx))

(***************************************************************************)
(* C33: in every liveData result as delivered to the consumer, also while  *)
(* collectors update the store, active_devices is the number of devices of *)
(* the result whose active flag is true, total_devices is the number of    *)
(* devices in it (so active_devices <= total_devices), and total_rx and    *)
(* total_tx are the sums of SpeedRx and SpeedTx over the interfaces        *)
(* contained in the same result.                                           *)
(***************************************************************************)
C33_LiveDataConsistent ==
    live.phase = "sent"
    => /\ live.active_devices
            = Cardinality({k \in DOMAIN live.devices : live.devices[k].IsActive})
       /\ live.total_devices = Cardinality(DOMAIN live.devices)
       /\ live.active_devices <= live.total_devices
       /\ SameSpeed(live.total_rx,
                    SumOfSpeeds(live.interfaces, DOMAIN live.interfaces, TRUE))
       /\ SameSpeed(live.total_tx,
                    SumOfSpeeds(live.interfaces, DOMAIN live.interfaces, FALSE))

\* the goroutine p holds Store.mu, or the mutex of its writers
HoldsLock(p) == mu.writer = p \/ p \in mu.readers \/ (p \in Writers /\ HoldsW(p))

(***************************************************************************)
(* C31: the store lock is never held while a collector performs a probe, a *)
(* subprocess call, a DNS lookup or an OS counter query; while the ping    *)
(* collector stays blocked probing a slow target, the traffic collector,   *)
(* the device collector and the snapshot readers are again and again out   *)
(* of the store: every store operation they have started completes.        *)
(***************************************************************************)
C31_NoLockDuringIO ==
    /\ [](\A p \in Writers : pc[p] = "io" => ~HoldsLock(p))
    /\ <>[](pc["ping"] = "io")
          => \A q \in (Writers \cup Readers) \ {"ping"} : []<>(~InCall(q))

\* the ping collector is probing and has stored nothing, while the two other
\* collectors have each completed an update and a request has read a snapshot
\* that holds the interface
C31_Witness ==
    /\ pc["ping"] = "io"
    /\ PingResults = EmptyMap
    /\ DOMAIN Interfaces # {}
    /\ DOMAIN Devices # {}
    /\ DOMAIN snapInterfaces # {}
    /\ \A q \in Writers \cup Readers : ~InCall(q)

(***************************************************************************)
(* C32: under fair scheduling every collector and every reader is again    *)
(* and again out of the store with no lock held, so every store update and *)
(* every snapshot call that starts completes and releases the lock;        *)
(* whatever the three collectors and the readers have done, while a call   *)
(* is under way some step of a call can be taken: there is no deadlock.    *)
(***************************************************************************)
C32_CallsCompleteNoDeadlock ==
    /\ \A p \in Writers \cup Readers : []<>(~InCall(p) /\ ~HoldsLock(p))
    /\ []((\E p \in Writers \cup Readers : InCall(p)) => ENABLED CallStep)

\* a writer is about to unlock while a second writer queues for the lock and
\* every reader is blocked in RLock
C32_Witness ==
    /\ \E w1, w2 \in Writers : pc[w1] = "ret" /\ pc[w2] = "wait"
    /\ \A r \in Readers : pc[r] = "wait"

====
